---- MODULE Spec2Model ----
(***************************************************************************)
(* The rule-stage engine and pipeline composer of talk-like-an-X           *)
(* (python/text_transformer.py, python/filter_factory.py, web/app.py).     *)
(*                                                                         *)
(* A text is a sequence of characters, a character a one-element string.   *)
(* The regular expressions the stages compile are modelled by a small      *)
(* backtracking matcher over the tokens the code actually emits: escaped   *)
(* literals, \b, \s+ and ([a-zA-Z]{m,}); re.sub is the leftmost,           *)
(* non-overlapping replace-all of Python's re module.                      *)
(***************************************************************************)
EXTENDS Integers, Sequences, FiniteSets, TLC

VARIABLES
    original, replacement, capResult, capPc,     \* same_cap(original, replacement)
    sub, subText, subResult, subPc,              \* a Substitution and its last transform
    conf,            \* the configuration the TextFilter was built from, if it was
    tf,              \* the TextFilter: transformers, prefix, suffix
    tfPrev,          \* the TextFilter as the last transform call found it
    tfText, tfResult, \* the argument and the result of the last TextFilter.transform
    tfTrace,         \* what each stage received and returned in that call
    tfCalls,         \* the number of TextFilter.transform calls made
    tfPc,            \* "new", "manual" (add / set_prefix / set_suffix) or "built" (from_dict)
    augmenter,       \* a SentenceAugmenter: rules, counters (_counters)
    augText, augResult, \* the argument and the result of its last transform
    augTrace,        \* the text and the counters before and after each rule in that call
    augPrev,         \* the argument and the result of the transform call before the last
    augSeen,         \* per punctuation, its occurrences in the texts that its rules of
                     \* frequency > 1 received, over all the calls
    augCalls,        \* the number of SentenceAugmenter.transform calls made
    augPc,           \* "setup", "used", or "readded" (add_rule after a transform)
    glitch,          \* the GlitchTransformer objects, by identity
    request,         \* the WebDemo.transform_text requests served
    affixer,         \* a SuffixReplacer or PrefixReplacer: class, add_rule calls, rules
    affixText, affixResult, \* the argument and the result of its last transform
    affixPc,         \* "none", "new" (constructed) or "used" (transform called)
    build,           \* a filter file given to from_json or DiscoFilter, and what came
                     \* of it: nothing yet, a TextFilter returned, or an error raised
    use,             \* a transform call on that TextFilter, and what came of it
    shared,          \* a SentenceAugmenter or GlitchTransformer two threads call
    thread           \* each thread's transform call on it: position, locals, result

capVars == <<original, replacement, capResult, capPc>>
subVars == <<sub, subText, subResult, subPc>>
pipeVars == <<conf, tf, tfPrev, tfText, tfResult, tfTrace, tfCalls, tfPc>>
augVars == <<augmenter, augText, augResult, augTrace, augPrev, augSeen, augCalls, augPc>>
glitchVars == <<glitch, request>>
affixVars == <<affixer, affixText, affixResult, affixPc>>
buildVars == <<build, use>>
raceVars == <<shared, thread>>
vars == <<capVars, subVars, pipeVars, augVars, glitchVars, affixVars, buildVars, raceVars>>

(***************************************************************************)
(* Characters and the str methods the engine uses.                         *)
(***************************************************************************)
LowerSeq ==
    <<"a", "b", "c", "d", "e", "f", "g", "h", "i", "j", "k", "l", "m",
      "n", "o", "p", "q", "r", "s", "t", "u", "v", "w", "x", "y", "z">>

UpperSeq ==
    <<"A", "B", "C", "D", "E", "F", "G", "H", "I", "J", "K", "L", "M",
      "N", "O", "P", "Q", "R", "S", "T", "U", "V", "W", "X", "Y", "Z">>

DigitSeq == <<"0", "1", "2", "3", "4", "5", "6", "7", "8", "9">>

LowerChars == {LowerSeq[i] : i \in DOMAIN LowerSeq}
UpperChars == {UpperSeq[i] : i \in DOMAIN UpperSeq}
DigitChars == {DigitSeq[i] : i \in DOMAIN DigitSeq}
AlphaChars == LowerChars \cup UpperChars
\* \s of the re module, as far as the modelled texts hold it.
SpaceChars == {" ", "\t"}
\* \w of the re module: letters, digits and the underscore.
WordChars == AlphaChars \cup DigitChars \cup {"_"}

\* c.upper() and c.lower() of one character
char_upper(c) ==
    IF c \in LowerChars
        THEN UpperSeq[CHOOSE i \in DOMAIN LowerSeq : LowerSeq[i] = c]
        ELSE c

char_lower(c) ==
    IF c \in UpperChars
        THEN LowerSeq[CHOOSE i \in DOMAIN UpperSeq : UpperSeq[i] = c]
        ELSE c

\* s.upper()
str_upper(s) == [i \in DOMAIN s |-> char_upper(s[i])]

\* s.lower()
str_lower(s) == [i \in DOMAIN s |-> char_lower(s[i])]

\* s.isupper(): at least one cased character and no lower-case one
str_isupper(s) ==
    /\ \E i \in DOMAIN s : s[i] \in UpperChars
    /\ \A i \in DOMAIN s : s[i] \notin LowerChars

\* c.isalnum()
char_isalnum(c) == c \in AlphaChars \cup DigitChars

\* s.split(): the maximal runs of non-whitespace characters of s, in order
RECURSIVE str_split_ws(_)
str_split_ws(s) ==
    IF s = <<>> THEN <<>>
    ELSE IF s[1] \in SpaceChars THEN str_split_ws(Tail(s))
    ELSE LET stop == IF \E i \in DOMAIN s : s[i] \in SpaceChars
                         THEN (CHOOSE i \in DOMAIN s :
                                   /\ s[i] \in SpaceChars
                                   /\ \A j \in 1..(i - 1) : s[j] \notin SpaceChars) - 1
                         ELSE Len(s)
         IN  <<SubSeq(s, 1, stop)>> \o str_split_ws(SubSeq(s, stop + 1, Len(s)))

\* the number of occurrences of character c in s
Count(s, c) == Cardinality({i \in DOMAIN s : s[i] = c})

(***************************************************************************)
(* same_cap and same_cap_replacer.                                         *)
(***************************************************************************)
\* A plausible slip: str.capitalize() for the second rule, which also
\* lower-cases the rest of the replacement.
same_cap_capitalize(orig, repl) ==
    IF orig = <<>> \/ repl = <<>> THEN repl
    ELSE IF str_isupper(orig) THEN str_upper(repl)
    ELSE IF orig[1] \in UpperChars
        THEN <<char_upper(repl[1])>> \o [i \in 1..(Len(repl) - 1) |-> char_lower(repl[i + 1])]
    ELSE <<char_lower(repl[1])>> \o Tail(repl)

same_cap(orig, repl) ==
    IF orig = <<>> \/ repl = <<>> THEN repl
    ELSE IF str_isupper(orig) THEN str_upper(repl)
    ELSE IF orig[1] \in UpperChars THEN <<char_upper(repl[1])>> \o Tail(repl)
    ELSE <<char_lower(repl[1])>> \o Tail(repl)

(***************************************************************************)
(* The regular expressions of the stages.  A pattern is a sequence of      *)
(* tokens; a position is the number of characters to its left.             *)
(***************************************************************************)
Lit(c) == [t |-> "lit", c |-> c, min |-> 0]          \* re.escape of one character
WordB == [t |-> "b", c |-> "", min |-> 0]            \* \b
Spaces == [t |-> "s+", c |-> "", min |-> 1]          \* \s+
Letters(m) == [t |-> "alpha", c |-> "", min |-> m]   \* ([a-zA-Z]{m,})

\* re.escape(word)
re_escape(word) == [i \in DOMAIN word |-> Lit(word[i])]

\* r'\s+'.join(parts), parts being token sequences
RECURSIVE JoinSpaces(_)
JoinSpaces(parts) ==
    IF parts = <<>> THEN <<>>
    ELSE IF Len(parts) = 1 THEN parts[1]
    ELSE parts[1] \o <<Spaces>> \o JoinSpaces(Tail(parts))

\* \b holds at pos: exactly one of the two neighbours is a word character
AtBoundary(text, pos) ==
    LET before == pos >= 1 /\ text[pos] \in WordChars
        after == pos < Len(text) /\ text[pos + 1] \in WordChars
    IN  before # after

\* a literal against a character, under re.IGNORECASE or not
CharEq(c, lit, icase) == IF icase THEN char_lower(c) = char_lower(lit) ELSE c = lit

\* the length of the run of characters of set S that starts at pos
RECURSIVE RunLen(_, _, _)
RunLen(text, pos, S) ==
    IF pos < Len(text) /\ text[pos + 1] \in S THEN 1 + RunLen(text, pos + 1, S) ELSE 0

\* The end of the match of pattern[k..] at pos, or -1.  Quantifiers are
\* greedy and backtrack, as in the re module.
RECURSIVE MatchFrom(_, _, _, _, _), Greedy(_, _, _, _, _, _, _)
MatchFrom(pat, k, text, pos, icase) ==
    IF k > Len(pat) THEN pos
    ELSE LET tok == pat[k] IN
         CASE tok.t = "lit" ->
                  IF pos < Len(text) /\ CharEq(text[pos + 1], tok.c, icase)
                      THEN MatchFrom(pat, k + 1, text, pos + 1, icase)
                      ELSE -1
           [] tok.t = "b" ->
                  IF AtBoundary(text, pos)
                      THEN MatchFrom(pat, k + 1, text, pos, icase)
                      ELSE -1
           [] tok.t = "s+" ->
                  Greedy(pat, k, text, pos, icase, RunLen(text, pos, SpaceChars), tok.min)
           [] tok.t = "alpha" ->
                  Greedy(pat, k, text, pos, icase, RunLen(text, pos, AlphaChars), tok.min)

Greedy(pat, k, text, pos, icase, n, min) ==
    IF n < min THEN -1
    ELSE LET e == MatchFrom(pat, k + 1, text, pos + n, icase)
         IN  IF e >= 0 THEN e ELSE Greedy(pat, k, text, pos, icase, n - 1, min)

\* What a rule's replacer returns for the matched text m.
Replacer(rule, m) ==
    CASE rule.replacer = "same_cap" -> same_cap(m, rule.replacement)
      [] rule.replacer = "literal" -> rule.replacement
      [] rule.replacer = "suffix" -> SubSeq(m, 1, Len(m) - rule.affix) \o rule.replacement
      [] rule.replacer = "prefix" -> rule.replacement \o SubSeq(m, rule.affix + 1, Len(m))

\* pattern.sub(replacer, text) from pos on: leftmost matches, left to right,
\* never overlapping; an empty match is replaced and the scan moves on by one.
RECURSIVE SubFrom(_, _, _)
SubFrom(rule, text, pos) ==
    LET e == MatchFrom(rule.pattern, 1, text, pos, rule.icase) IN
    IF e > pos THEN Replacer(rule, SubSeq(text, pos + 1, e)) \o SubFrom(rule, text, e)
    ELSE (IF e = pos THEN Replacer(rule, <<>>) ELSE <<>>)
         \o (IF pos < Len(text) THEN <<text[pos + 1]>> \o SubFrom(rule, text, pos + 1)
             ELSE <<>>)

re_sub(rule, text) == SubFrom(rule, text, 0)

\* The spans <<start, end>> (positions) that pattern.sub replaces in text.
RECURSIVE SpansFrom(_, _, _)
SpansFrom(rule, text, pos) ==
    LET e == MatchFrom(rule.pattern, 1, text, pos, rule.icase) IN
    IF e > pos THEN <<<<pos, e>>>> \o SpansFrom(rule, text, e)
    ELSE (IF e = pos THEN <<<<pos, e>>>> ELSE <<>>)
         \o (IF pos < Len(text) THEN SpansFrom(rule, text, pos + 1) ELSE <<>>)

\* RegexTransformer._add_rule: one compiled rule
Rule(pattern, icase, replacer, repl, affix) ==
    [pattern |-> pattern, icase |-> icase, replacer |-> replacer,
     replacement |-> repl, affix |-> affix]

\* the loop of RegexTransformer.transform: results holds the text handed in
\* and the text each rule so far returned; every rule runs over the whole
\* text the rule before it left.
RECURSIVE RuleResults(_, _)
RuleResults(rules, results) ==
    IF Len(results) > Len(rules) THEN results
    ELSE RuleResults(rules, Append(results, re_sub(rules[Len(results)],
                                                   results[Len(results)])))

\* RegexTransformer.transform
RegexTransformer_transform(rules, text) ==
    LET results == RuleResults(rules, <<text>>) IN results[Len(results)]

\* The text each rule of the list receives, in order (text itself first).
RuleInputs(rules, text) == SubSeq(RuleResults(rules, <<text>>), 1, Len(rules))

(***************************************************************************)
(* Rule tables.  A table (a dict) is the sequence of its <<key, value>>    *)
(* items in insertion order, its keys distinct.                            *)
(***************************************************************************)
\* sorted(items, key=len(key), reverse=True): a stable sort, so items of
\* equal key length keep their insertion order.
RECURSIVE InsertByLen(_, _)
InsertByLen(item, sorted) ==
    IF sorted = <<>> THEN <<item>>
    ELSE IF Len(sorted[Len(sorted)][1]) >= Len(item[1]) THEN Append(sorted, item)
    ELSE Append(InsertByLen(item, SubSeq(sorted, 1, Len(sorted) - 1)), sorted[Len(sorted)])

RECURSIVE SortBuild(_, _)
SortBuild(items, acc) ==
    IF items = <<>> THEN acc ELSE SortBuild(Tail(items), InsertByLen(items[1], acc))

sorted_by_len(items) == SortBuild(items, <<>>)

\* Substitution._compile_mappings, one item
SubstitutionRule(key, repl, word_boundary, preserve_case) ==
    LET body == IF " " \in {key[i] : i \in DOMAIN key}
                    THEN JoinSpaces([i \in DOMAIN str_split_ws(key) |->
                                         re_escape(str_split_ws(key)[i])])
                    ELSE re_escape(key)
        pattern == IF word_boundary THEN <<WordB>> \o body \o <<WordB>> ELSE body
    IN  Rule(pattern, preserve_case,
             IF preserve_case THEN "same_cap" ELSE "literal", repl, 0)

\* Substitution.__init__ / _compile_mappings: the compiled rule list
Substitution_compile_mappings(mappings, word_boundary, preserve_case) ==
    LET items == sorted_by_len(mappings)
    IN  [i \in DOMAIN items |->
            SubstitutionRule(items[i][1], items[i][2], word_boundary, preserve_case)]

\* CharacterSubstitution.__init__: the compiled rule list; never a word
\* boundary
CharacterSubstitution_init(mappings, preserve_case) ==
    LET items == sorted_by_len(mappings)
    IN  [i \in DOMAIN items |->
            Rule(re_escape(items[i][1]), preserve_case,
                 IF preserve_case THEN "same_cap" ELSE "literal", items[i][2], 0)]

\* SuffixReplacer.add_rule: ([a-zA-Z]{min_stem,}) suffix \b, ignoring case;
\* the replacer returns group 1 and the replacement
SuffixReplacer_add_rule(rules, suffix, repl, min_stem) ==
    Append(rules, Rule(<<Letters(min_stem)>> \o re_escape(suffix) \o <<WordB>>,
                       TRUE, "suffix", repl, Len(suffix)))

\* PrefixReplacer.add_rule: \b prefix ([a-zA-Z]+), ignoring case; the
\* replacer returns the replacement and group 1
PrefixReplacer_add_rule(rules, prefix, repl) ==
    Append(rules, Rule(<<WordB>> \o re_escape(prefix) \o <<Letters(1)>>,
                       TRUE, "prefix", repl, Len(prefix)))

(***************************************************************************)
(* SentenceAugmenter.  A rule is <<punctuation, additions, frequency>>;    *)
(* _counters is a dict from punctuation to int.                            *)
(***************************************************************************)
\* dict.get(key, default)
dict_get(d, key, default) == IF key \in DOMAIN d THEN d[key] ELSE default

\* d[key] = value
dict_set(d, key, value) == (key :> value) @@ d

\* the empty dict
EmptyDict == [k \in {} |-> 0]

\* the least position at or after pos where sep occurs in text, or -1
RECURSIVE str_find(_, _, _)
str_find(text, sep, pos) ==
    IF pos + Len(sep) > Len(text) THEN -1
    ELSE IF SubSeq(text, pos + 1, pos + Len(sep)) = sep THEN pos
    ELSE str_find(text, sep, pos + 1)

\* text.split(sep), sep not empty
RECURSIVE str_split(_, _)
str_split(text, sep) ==
    LET at == str_find(text, sep, 0) IN
    IF at < 0 THEN <<text>>
    ELSE <<SubSeq(text, 1, at)>> \o str_split(SubSeq(text, at + Len(sep) + 1, Len(text)), sep)

\* SentenceAugmenter.add_rule
SentenceAugmenter_add_rule(aug, punct, additions, freq) ==
    [rules |-> Append(aug.rules, <<punct, additions, freq>>),
     counters |-> IF freq > 1 THEN dict_set(aug.counters, punct, 0) ELSE aug.counters]

\* A plausible slip: the occurrence index left out of the lookup, so that
\* every occurrence receives the first addition.
RECURSIVE AugmentAlways_first_addition(_, _, _, _)
AugmentAlways_first_addition(parts, punct, additions, i) ==
    IF Len(parts) <= 1 THEN parts[1]
    ELSE parts[1] \o punct \o additions[1]
             \o AugmentAlways_first_addition(Tail(parts), punct, additions, i + 1)

\* the loop of a frequency 1 rule over parts[:-1], i counting from 0
RECURSIVE AugmentAlways(_, _, _, _)
AugmentAlways(parts, punct, additions, i) ==
    IF Len(parts) <= 1 THEN parts[1]
    ELSE parts[1] \o punct \o additions[(i % Len(additions)) + 1]
             \o AugmentAlways(Tail(parts), punct, additions, i + 1)

\* A plausible slip: the counter incremented before it is tested, so that
\* the Nth, 2Nth, ... occurrences are augmented instead of the 1st, N+1st, ...
RECURSIVE AugmentNth_count_first(_, _, _, _, _)
AugmentNth_count_first(parts, punct, additions, freq, counter) ==
    IF Len(parts) <= 1 THEN [text |-> parts[1], counter |-> counter]
    ELSE LET rest == AugmentNth_count_first(Tail(parts), punct, additions, freq, counter + 1)
         IN  [text |-> parts[1] \o punct
                           \o (IF (counter + 1) % freq = 0
                                   THEN additions[((counter + 1) % Len(additions)) + 1]
                                   ELSE <<>>)
                           \o rest.text,
              counter |-> rest.counter]

\* A plausible slip: an occurrence of the punctuation that ends the text is
\* re-emitted without a decision, neither augmented nor counted.
RECURSIVE AugmentNth_not_last(_, _, _, _, _)
AugmentNth_not_last(parts, punct, additions, freq, counter) ==
    IF Len(parts) <= 1 THEN [text |-> parts[1], counter |-> counter]
    ELSE IF Len(parts) = 2 /\ parts[2] = <<>>
        THEN [text |-> parts[1] \o punct, counter |-> counter]
    ELSE LET rest == AugmentNth_not_last(Tail(parts), punct, additions, freq, counter + 1)
         IN  [text |-> parts[1] \o punct
                           \o (IF counter % freq = 0
                                   THEN additions[(counter % Len(additions)) + 1]
                                   ELSE <<>>)
                           \o rest.text,
              counter |-> rest.counter]

\* the loop of a frequency > 1 rule over parts[:-1]: the text and the
\* counter it ends with
RECURSIVE AugmentNth(_, _, _, _, _)
AugmentNth(parts, punct, additions, freq, counter) ==
    IF Len(parts) <= 1 THEN [text |-> parts[1], counter |-> counter]
    ELSE LET rest == AugmentNth(Tail(parts), punct, additions, freq, counter + 1)
         IN  [text |-> parts[1] \o punct
                           \o (IF counter % freq = 0
                                   THEN additions[(counter % Len(additions)) + 1]
                                   ELSE <<>>)
                           \o rest.text,
              counter |-> rest.counter]

\* A plausible slip: the counter a frequency > 1 rule ends with is not
\* written back, so that every call starts from the stored value again.
AugmentRule_no_store(rule, counters, text) ==
    IF rule[3] = 1
        THEN [text |-> AugmentAlways(str_split(text, rule[1]), rule[1], rule[2], 0),
              counters |-> counters]
        ELSE [text |-> AugmentNth(str_split(text, rule[1]), rule[1], rule[2], rule[3],
                                  dict_get(counters, rule[1], 0)).text,
              counters |-> counters]

\* A plausible slip: a frequency 1 rule given a counter of its own, stored
\* like the counter of a frequency > 1 rule.
AugmentRule_count_always(rule, counters, text) ==
    LET r == AugmentNth(str_split(text, rule[1]), rule[1], rule[2], rule[3],
                        dict_get(counters, rule[1], 0))
    IN  [text |-> IF rule[3] = 1
                      THEN AugmentAlways(str_split(text, rule[1]), rule[1], rule[2], 0)
                      ELSE r.text,
         counters |-> dict_set(counters, rule[1], r.counter)]

\* one rule of SentenceAugmenter.transform: the text and the counters after it
AugmentRule(rule, counters, text) ==
    IF rule[3] = 1
        THEN [text |-> AugmentAlways(str_split(text, rule[1]), rule[1], rule[2], 0),
              counters |-> counters]
        ELSE LET r == AugmentNth(str_split(text, rule[1]), rule[1], rule[2], rule[3],
                                 dict_get(counters, rule[1], 0))
             IN  [text |-> r.text, counters |-> dict_set(counters, rule[1], r.counter)]

\* A plausible slip: every rule applied to the text the call was given, not
\* to the text the rule before it left.
RECURSIVE AugmentRules_from_input(_, _)
AugmentRules_from_input(rules, done) ==
    IF Len(done) > Len(rules) THEN done
    ELSE AugmentRules_from_input(rules,
             Append(done, AugmentRule(rules[Len(done)], done[Len(done)].counters,
                                      done[1].text)))

\* the loop of SentenceAugmenter.transform: done holds the text and the
\* counters at the start and after each rule so far; every rule runs on the
\* text the rule before it left.
RECURSIVE AugmentRules(_, _)
AugmentRules(rules, done) ==
    IF Len(done) > Len(rules) THEN done
    ELSE AugmentRules(rules, Append(done, AugmentRule(rules[Len(done)],
                                                      done[Len(done)].counters,
                                                      done[Len(done)].text)))

\* SentenceAugmenter.transform: the text returned and the counters left
SentenceAugmenter_transform(rules, counters, text) ==
    LET done == AugmentRules(rules, <<[text |-> text, counters |-> counters]>>)
    IN  done[Len(done)]

(***************************************************************************)
(* GlitchTransformer.  random.Random(seed) is CPython's Mersenne Twister;  *)
(* a small linear congruential generator stands for it here: its stream is *)
(* a function of the seed alone and every draw advances its state.         *)
(***************************************************************************)
GLITCH_CHARS ==
    <<"U+2588", "U+2593", "U+2592", "U+2591", "U+2580", "U+2584",
      "U+258C", "U+2590", "U+25A0", "U+25A1", "U+25AA", "U+25AB",
      "U+25AC", "U+25AD", "U+25AE", "U+25AF", "U+25B0", "U+25B1",
      "U+25B2", "U+25B3", "U+25B4", "U+25B5", "U+25B6", "U+25B7",
      "U+25B8", "U+25B9", "U+25BA", "U+25BB", "U+25BC", "U+25BD",
      "U+25BE", "U+25BF", "U+25C0", "U+25C1", "U+25C2", "U+25C3",
      "U+25C4", "U+25C5", "U+25C6", "U+25C7", "U+25C8", "U+25C9",
      "U+25CA", "U+25CB", "U+25CC", "U+25CD", "U+25CE", "U+25CF",
      "U+25D0", "U+25D1", "U+25D2", "U+25D3", "U+25D4", "U+25D5",
      "U+25D6", "U+25D7", "U+25D8", "U+25D9", "U+25DA", "U+25DB">>

\* the generator's state space, multiplier and increment
RngModulus == 7919
RngMultiplier == 1103
RngIncrement == 12345

\* random.Random(seed): the state the seed fixes
Random_seed(seed) == (seed * 31 + 17) % RngModulus

\* one step of the generator
Random_next(state) == (state * RngMultiplier + RngIncrement) % RngModulus

\* the value random.randint(1, 100) returns from the state it stepped to
randint_1_100(state) == (state % 100) + 1

\* the element random.choice(GLITCH_CHARS) returns from the state it stepped to
choice_glitch(state) == GLITCH_CHARS[((state \div 100) % Len(GLITCH_CHARS)) + 1]

\* A plausible slip: the isalnum test left out, so that every character,
\* punctuation and spaces too, may be glitched.
RECURSIVE GlitchFrom_every_character(_, _, _, _)
GlitchFrom_every_character(text, percentage, state, result) ==
    IF Len(result) >= Len(text) THEN [text |-> result, random |-> state]
    ELSE IF randint_1_100(Random_next(state)) <= percentage
        THEN GlitchFrom_every_character(text, percentage, Random_next(Random_next(state)),
                 Append(result, choice_glitch(Random_next(Random_next(state)))))
    ELSE GlitchFrom_every_character(text, percentage, Random_next(state),
                                    Append(result, text[Len(result) + 1]))

\* the loop of GlitchTransformer.transform, result being the list built so
\* far, one element for each character read: the text produced and the
\* generator state left.  `and` short-circuits: a character that is not
\* alphanumeric draws nothing; a glitched one draws twice.
RECURSIVE GlitchFrom(_, _, _, _)
GlitchFrom(text, percentage, state, result) ==
    IF Len(result) >= Len(text) THEN [text |-> result, random |-> state]
    ELSE LET c == text[Len(result) + 1] IN
         IF ~char_isalnum(c)
             THEN GlitchFrom(text, percentage, state, Append(result, c))
         ELSE IF randint_1_100(Random_next(state)) <= percentage
             THEN GlitchFrom(text, percentage, Random_next(Random_next(state)),
                             Append(result, choice_glitch(Random_next(Random_next(state)))))
         ELSE GlitchFrom(text, percentage, Random_next(state), Append(result, c))

\* A plausible slip: the generator made anew from the seed state on every
\* call, so that a call leaves the object's generator where it found it.
GlitchTransformer_transform_reseed(percentage, state, text) ==
    [text |-> GlitchFrom(text, percentage, state, <<>>).text, random |-> state]

\* GlitchTransformer.transform: the text returned and the generator left
GlitchTransformer_transform(percentage, state, text) ==
    GlitchFrom(text, percentage, state, <<>>)

\* A plausible slip: random.Random() without the seed, which seeds from the
\* system's entropy; the identity of the new object stands for that entropy.
GlitchTransformer_init_unseeded(self, percentage, seed) ==
    [percentage |-> percentage, random |-> Random_seed(self)]

\* GlitchTransformer.__init__; self is the identity of the new object
GlitchTransformer_init(self, percentage, seed) ==
    [percentage |-> percentage, random |-> Random_seed(seed)]

(***************************************************************************)
(* Two threads calling transform on one object.  A thread switch can fall  *)
(* between any two bytecodes; what matters is where a call reads and       *)
(* writes the object's state: SentenceAugmenter.transform reads the        *)
(* counter of a frequency > 1 rule into a local before its loop and writes *)
(* the local back after it; GlitchTransformer.transform steps the          *)
(* generator once in randint and once more in choice.                      *)
(***************************************************************************)
\* A plausible slip: the counter read again where it is written back, as if
\* the whole call ran under a lock.
Augmenter_write_reread(stage, call) ==
    LET rule == stage.rules[1]
        r == AugmentNth(str_split(call.text, rule[1]), rule[1], rule[2], rule[3],
                        dict_get(stage.counters, rule[1], 0))
    IN  [text |-> r.text, counters |-> dict_set(stage.counters, rule[1], r.counter)]

\* the loop of a frequency > 1 rule from the counter the call read, and
\* self._counters[punct] = counter
Augmenter_write(stage, call) ==
    LET rule == stage.rules[1]
        r == AugmentNth(str_split(call.text, rule[1]), rule[1], rule[2], rule[3],
                        call.counter)
    IN  [text |-> r.text, counters |-> dict_set(stage.counters, rule[1], r.counter)]

\* the generator after n more steps
RECURSIVE Random_advance(_, _)
Random_advance(state, n) == IF n = 0 THEN state ELSE Random_advance(Random_next(state), n - 1)

(***************************************************************************)
(* TextFilter: the stage list, the prefix and the suffix.  A stage is a    *)
(* record of its class (kind) and its fields; the fields a class does not  *)
(* have stay empty.                                                        *)
(***************************************************************************)
Stage(kind, rules, counters, percentage, random) ==
    [kind |-> kind, rules |-> rules, counters |-> counters,
     percentage |-> percentage, random |-> random]

RegexStage(kind, rules) == Stage(kind, rules, EmptyDict, 0, 0)
AugmenterStage(aug) == Stage("SentenceAugmenter", aug.rules, aug.counters, 0, 0)
GlitchStage(g) == Stage("GlitchTransformer", <<>>, EmptyDict, g.percentage, g.random)

\* transformer.transform(text), dispatched on the stage's class: the text
\* returned and the stage as the call leaves it
Transformer_transform(stage, text) ==
    CASE stage.kind = "SentenceAugmenter" ->
             LET r == SentenceAugmenter_transform(stage.rules, stage.counters, text)
             IN  [text |-> r.text, stage |-> [stage EXCEPT !.counters = r.counters]]
      [] stage.kind = "GlitchTransformer" ->
             LET r == GlitchTransformer_transform(stage.percentage, stage.random, text)
             IN  [text |-> r.text, stage |-> [stage EXCEPT !.random = r.random]]
      [] OTHER ->
             [text |-> RegexTransformer_transform(stage.rules, text), stage |-> stage]

\* TextFilter.__init__
TextFilter_init == [transformers |-> <<>>, prefix |-> <<>>, suffix |-> <<>>]

\* TextFilter.add, set_prefix, set_suffix
TextFilter_add(filter, transformer) ==
    [filter EXCEPT !.transformers = Append(@, transformer)]

TextFilter_set_prefix(filter, prefix) == [filter EXCEPT !.prefix = prefix]
TextFilter_set_suffix(filter, suffix) == [filter EXCEPT !.suffix = suffix]

\* the loop of TextFilter.transform over the stages: calls holds, for each
\* stage called so far, what it received, what it returned and the stage as
\* the call left it
RECURSIVE RunStages(_, _, _)
RunStages(stages, text, calls) ==
    IF Len(calls) >= Len(stages) THEN calls
    ELSE LET k == Len(calls) + 1
             result == IF k = 1 THEN text ELSE calls[k - 1].out
             r == Transformer_transform(stages[k], result)
         IN  RunStages(stages, text,
                       Append(calls, [in |-> result, out |-> r.text, stage |-> r.stage]))

\* what TextFilter.transform makes of the stage calls: the text the last
\* stage returned (the input when there is no stage), the stages as the calls
\* left them, and what each stage received and returned
StagesOutcome(text, calls) ==
    [text |-> IF calls = <<>> THEN text ELSE calls[Len(calls)].out,
     stages |-> [k \in 1..Len(calls) |-> calls[k].stage],
     trace |-> [k \in 1..Len(calls) |-> [in |-> calls[k].in, out |-> calls[k].out]]]

\* A plausible slip: the prefix and the suffix wrapped around the input, so
\* that the stages rewrite them too.
TextFilter_transform_wrap_first(filter, text) ==
    LET r == StagesOutcome(filter.prefix \o text \o filter.suffix,
                           RunStages(filter.transformers,
                                     filter.prefix \o text \o filter.suffix, <<>>))
    IN  [result |-> r.text,
         filter |-> [filter EXCEPT !.transformers = r.stages],
         trace |-> r.trace]

\* TextFilter.transform: the result, the filter after the call, and the
\* trace of the stage calls
TextFilter_transform(filter, text) ==
    LET r == StagesOutcome(text, RunStages(filter.transformers, text, <<>>))
    IN  [result |-> filter.prefix \o r.text \o filter.suffix,
         filter |-> [filter EXCEPT !.transformers = r.stages],
         trace |-> r.trace]

(***************************************************************************)
(* FilterFactory.from_dict.  A configuration is the sequence of its keys   *)
(* in the order of the document (config.keys) and the value of each key;   *)
(* the value under a key the document does not hold is never read.         *)
(***************************************************************************)
Range(seq) == {seq[i] : i \in DOMAIN seq}

\* key in config
HasKey(config, key) == key \in Range(config.keys)

\* config.get(key, default)
config_get(config, key, default) == IF HasKey(config, key) THEN config[key] ELSE default

\* the loop over config['suffixes'].items(): a plain replacement takes the
\* default min_stem of add_rule, a detailed one its own or 2
RECURSIVE SuffixRules(_, _)
SuffixRules(items, rules) ==
    IF items = <<>> THEN rules
    ELSE LET v == items[1][2]
         IN  SuffixRules(Tail(items),
                 SuffixReplacer_add_rule(rules, items[1][1], v.replacement,
                     IF v.detailed /\ v.has_min_stem THEN v.min_stem ELSE 2))

\* the loop over config['prefixes'].items()
RECURSIVE PrefixRules(_, _)
PrefixRules(items, rules) ==
    IF items = <<>> THEN rules
    ELSE PrefixRules(Tail(items), PrefixReplacer_add_rule(rules, items[1][1], items[1][2]))

\* the loop over config['sentence_augmentation']
RECURSIVE AugmenterRules(_, _)
AugmenterRules(rules, aug) ==
    IF rules = <<>> THEN aug
    ELSE AugmenterRules(Tail(rules),
             SentenceAugmenter_add_rule(aug, rules[1].punctuation, rules[1].additions,
                 IF rules[1].has_frequency THEN rules[1].frequency ELSE 1))

\* the stage from_dict builds for one recognized table
\* A plausible slip: the percentage clamped to [0, 100] where it is read.
glitch_percentage_clamped(config) ==
    LET p == IF config.glitch.isdict
                 THEN (IF config.glitch.has_percentage THEN config.glitch.percentage ELSE 100)
                 ELSE config.glitch.percentage
    IN  IF p < 0 THEN 0 ELSE IF p > 100 THEN 100 ELSE p

\* the percentage and the seed from_dict hands to GlitchTransformer: those of
\* a dict, 100 and 42 where it holds none, or the bare number and 42
glitch_percentage(config) ==
    IF config.glitch.isdict
        THEN (IF config.glitch.has_percentage THEN config.glitch.percentage ELSE 100)
        ELSE config.glitch.percentage

glitch_seed(config) ==
    IF config.glitch.isdict
        THEN (IF config.glitch.has_seed THEN config.glitch.seed ELSE 42)
        ELSE 42

\* the stage from_dict builds for a table; self is the identity of the object
StageFor(config, key, self) ==
    CASE key = "substitutions" ->
             RegexStage("Substitution",
                 Substitution_compile_mappings(config.substitutions,
                     config_get(config, "word_boundary", TRUE),
                     config_get(config, "preserve_case", TRUE)))
      [] key = "characters" ->
             RegexStage("CharacterSubstitution",
                 CharacterSubstitution_init(config.characters,
                     config_get(config, "preserve_case", TRUE)))
      [] key = "suffixes" ->
             RegexStage("SuffixReplacer", SuffixRules(config.suffixes, <<>>))
      [] key = "prefixes" ->
             RegexStage("PrefixReplacer", PrefixRules(config.prefixes, <<>>))
      [] key = "sentence_augmentation" ->
             AugmenterStage(AugmenterRules(config.sentence_augmentation,
                                           [rules |-> <<>>, counters |-> EmptyDict]))
      [] key = "glitch" ->
             GlitchStage(GlitchTransformer_init(self, glitch_percentage(config),
                                                glitch_seed(config)))

\* the tables from_dict looks up, in the order of its if statements
StageKeys ==
    <<"substitutions", "characters", "suffixes", "prefixes",
      "sentence_augmentation", "glitch">>

\* A plausible slip: the stages built in the order of the document's keys.
BuildOrder_document(config) == SelectSeq(config.keys, LAMBDA k : k \in Range(StageKeys))

\* the recognized tables the configuration holds, in the order from_dict
\* builds their stages
BuildOrder(config) == SelectSeq(StageKeys, LAMBDA k : HasKey(config, k))

\* the filter.add calls of from_dict, for the tables of order
RECURSIVE AddStages(_, _, _, _)
AddStages(filter, config, order, self) ==
    IF order = <<>> THEN filter
    ELSE AddStages(TextFilter_add(filter, StageFor(config, order[1], self)),
                   config, Tail(order), self)

\* FilterFactory.from_dict; self is the identity of the objects it creates
FilterFactory_from_dict(config, self) ==
    LET order == BuildOrder(config)
        staged == AddStages(TextFilter_init, config, order, self)
        prefixed == IF HasKey(config, "prefix_text")
                        THEN TextFilter_set_prefix(staged, config.prefix_text)
                        ELSE staged
    IN  IF HasKey(config, "suffix_text")
            THEN TextFilter_set_suffix(prefixed, config.suffix_text)
            ELSE prefixed

\* JSON values that are not strings stand in a table as themselves; json_5 is
\* the number 5, the one-element sequence of a string that is no character.
json_5 == <<"int:5">>
NonStrings == {json_5}

\* from_dict raises where it indexes a key the document does not hold: a
\* detailed suffix entry (a dict) without 'replacement' (KeyError).  Nothing
\* in from_dict looks at the type of a replacement.
from_dict_raises(config) ==
    /\ HasKey(config, "suffixes")
    /\ \E i \in DOMAIN config.suffixes :
           config.suffixes[i][2].detailed /\ ~config.suffixes[i][2].has_replacement

\* What a replacer does with a replacement that is a number, when its rule
\* matches: same_cap indexes it or calls upper() on it, the suffix and the
\* prefix replacer add it to a str, and re.sub rejects it as the value of a
\* replacer; each raises.  A rule that matches nothing calls no replacer.
StageRaises(stage, text) ==
    /\ stage.kind \notin {"SentenceAugmenter", "GlitchTransformer"}
    /\ \E k \in DOMAIN stage.rules :
           /\ stage.rules[k].replacement \in NonStrings
           /\ SpansFrom(stage.rules[k], RuleInputs(stage.rules, text)[k], 0) # <<>>

\* TextFilter.transform raises when a stage's transform does; the stages
\* before it ran as usual.
TransformRaises(filter, text) ==
    LET calls == RunStages(filter.transformers, text, <<>>) IN
    \E k \in DOMAIN filter.transformers : StageRaises(filter.transformers[k], calls[k].in)

\* dict.update on tables: d[key] = value for each item of other, a key the
\* table holds keeping its place
table_set(table, key, value) ==
    IF \E i \in DOMAIN table : table[i][1] = key
        THEN [i \in DOMAIN table |-> IF table[i][1] = key THEN <<key, value>> ELSE table[i]]
        ELSE Append(table, <<key, value>>)

RECURSIVE table_update(_, _)
table_update(table, other) ==
    IF other = <<>> THEN table
    ELSE table_update(table_set(table, other[1][1], other[1][2]), Tail(other))

\* DiscoFilter._build_filter: phrases, exclamations and words merged into
\* one Substitution, then affixes.suffixes, then sentence_fillers
DiscoFilter_build_filter(slang) ==
    LET phrases == IF HasKey(slang, "phrases") THEN table_update(<<>>, slang.phrases)
                   ELSE <<>>
        exclamations == IF HasKey(slang, "exclamations")
                            THEN table_update(phrases, slang.exclamations) ELSE phrases
        all_mappings == IF HasKey(slang, "words")
                            THEN table_update(exclamations, slang.words) ELSE exclamations
        substituted == TextFilter_add(TextFilter_init,
                           RegexStage("Substitution",
                               Substitution_compile_mappings(all_mappings, TRUE, TRUE)))
        suffixed == IF HasKey(slang, "affixes") /\ HasKey(slang.affixes, "suffixes")
                        THEN TextFilter_add(substituted,
                                 RegexStage("SuffixReplacer",
                                     SuffixRules(slang.affixes.suffixes, <<>>)))
                        ELSE substituted
    IN  IF HasKey(slang, "sentence_fillers")
            THEN TextFilter_add(suffixed,
                     AugmenterStage(SentenceAugmenter_add_rule(
                         [rules |-> <<>>, counters |-> EmptyDict],
                         <<".">>, slang.sentence_fillers, 3)))
            ELSE suffixed

(***************************************************************************)
(* Texts, keys and replacements of the runs below.                         *)
(***************************************************************************)
\* every text over alphabet of at most n characters
Strings(alphabet, n) == UNION {[1..k -> alphabet] : k \in 0..n}

s_going_to == <<"g", "o", "i", "n", "g", " ", "t", "o">>
s_going == <<"g", "o", "i", "n", "g">>
s_gonna == <<"g", "o", "n", "n", "a">>
s_goin == <<"g", "o", "i", "n">>
s_hello == <<"h", "e", "l", "l", "o">>
s_hey == <<"h", "e", "y">>
s_the == <<"t", "h", "e">>
s_da == <<"d", "a">>
s_em == <<"'", "e", "m">>
s_them == <<"t", "h", "e", "m">>
s_oh_no == <<"o", "h", " ", "n", "o", "!">>
s_yikes == <<"y", "i", "k", "e", "s", "!">>
s_no == <<"n", "o">>
s_nah == <<"n", "a", "h">>
t_I_am_going_to_run ==
    <<"I", " ", "a", "m", " ", "g", "o", "i", "n", "g", " ", "t", "o", " ", "r", "u", "n">>
t_I_am_gonna_run ==
    <<"I", " ", "a", "m", " ", "g", "o", "n", "n", "a", " ", "r", "u", "n">>
t_I_am_goin_to_run ==
    <<"I", " ", "a", "m", " ", "g", "o", "i", "n", " ", "t", "o", " ", "r", "u", "n">>
t_going_wide == <<"g", "o", "i", "n", "g", " ", " ", "t", "o">>
t_Hello == <<"H", "e", "l", "l", "o">>
t_HELLO == <<"H", "E", "L", "L", "O">>
t_Hey == <<"H", "e", "y">>
t_HEY == <<"H", "E", "Y">>
t_theater == <<"t", "h", "e", "a", "t", "e", "r">>
t_the_theater == <<"t", "h", "e", " ", "t", "h", "e", "a", "t", "e", "r">>
t_get_em == <<"g", "e", "t", "'", "e", "m">>
t_oh_no_stop == <<"o", "h", " ", "n", "o", "!", " ", "s", "t", "o", "p">>
s_yo == <<"y", "o">>
s_th == <<"t", "h">>
s_d == <<"d">>
s_ing == <<"i", "n", "g">>
s_in_ == <<"i", "n", "'">>
s_un == <<"u", "n">>
s_not == <<"n", "o", "t">>
s_pre == <<"p", "r", "e", " ">>
s_end == <<" ", "e", "n", "d">>
\* the text of the __main__ demo, without its "I am" and "and"
t_demo ==
    <<"H", "e", "l", "l", "o", "!", " ", "g", "o", "i", "n", "g", " ", "t", "o", " ",
      "t", "h", "e", " ", "t", "h", "e", "a", "t", "e", "r", " ", "s", "i", "n", "g",
      "i", "n", "g">>
t_demo_out ==
    <<"Y", "o", "!", " ", "g", "o", "n", "n", "a", " ", "d", "a", " ", "d", "e", "a",
      "t", "e", "r", " ", "s", "i", "n", "g", "i", "n", "'">>
t_da_theater == <<"d", "a", " ", "t", "h", "e", "a", "t", "e", "r">>
t_da_deater == <<"d", "a", " ", "d", "e", "a", "t", "e", "r">>
t_One_Two ==
    <<"O", "n", "e", ".", " ", "T", "w", "o", ".", " ", "T", "h", "r", "e", "e", ".", " ",
      "F", "o", "u", "r", ".">>
t_One_Two_A ==
    <<"O", "n", "e", ".", "A", " ", "T", "w", "o", ".", " ", "T", "h", "r", "e", "e", ".",
      "A", " ", "F", "o", "u", "r", ".">>
t_Unhappy == <<"U", "n", "h", "a", "p", "p", "y", " ", "t", "h", "i", "n", "g", ".">>

\* the longest generated original / replacement of the same_cap runs
MaxCapLen == 2
CapAlphabet == {"a", "B", "1"}
CapOriginals == Strings(CapAlphabet, MaxCapLen) \cup {s_hello, t_Hello, t_HELLO}
CapReplacements == Strings(CapAlphabet, MaxCapLen) \cup {s_hey}

\* the longest generated input text of the Substitution runs
MaxSubLen == 3
SubAlphabet == {"a", "'", " "}
SubTexts ==
    Strings(SubAlphabet, MaxSubLen)
        \cup {t_I_am_going_to_run, t_going_wide, s_going_to, s_hello, t_Hello, t_HELLO,
              t_theater, t_the_theater, t_get_em, s_em, t_oh_no_stop}

k_a == <<"a">>
k_a_a == <<"a", " ", "a">>
k_qa == <<"'", "a">>
k_aq == <<"a", "'">>
r_e == <<"e">>
r_o == <<"o">>

\* the rule tables of the Substitution runs, in insertion order
SubTables ==
    { <<<<s_going_to, s_gonna>>, <<s_going, s_goin>>>>,
      <<<<s_going, s_goin>>, <<s_going_to, s_gonna>>>>,
      <<<<s_hello, s_hey>>>>,
      <<<<s_the, s_da>>>>,
      <<<<s_em, s_them>>>>,
      <<<<s_oh_no, s_yikes>>, <<s_no, s_nah>>>>,
      <<<<k_a, r_e>>>>,
      <<<<k_a_a, r_o>>, <<k_a, r_e>>>>,
      <<<<k_a, r_e>>, <<k_a_a, r_o>>>>,
      <<<<k_qa, r_e>>>>,
      <<<<k_aq, r_e>>>>,
      <<<<s_going_to, s_going>>, <<s_going, s_goin>>>>,
      <<<<k_a, r_e>>, <<k_a_a, k_a>>>> }

\* the keys a configuration document may hold: the six tables, the two
\* wrapping texts, the two switches, and the name, which from_dict ignores
ConfigKeys ==
    Range(StageKeys) \cup {"prefix_text", "suffix_text", "word_boundary", "preserve_case", "name"}

\* the most keys a generated configuration holds
MaxConfigKeys == 2

\* the sequences of at most n distinct elements of S
Arrangements(S, n) ==
    UNION {{q \in [1..k -> S] : \A i, j \in 1..k : i # j => q[i] # q[j]} : k \in 0..n}

\* the configuration with the given keys, in the given order: the tables of
\* the __main__ demo of text_transformer.py, and one rule for each other stage
DemoConfig(keys) ==
    [keys |-> keys,
     name |-> <<"d", "e", "m", "o">>,
     substitutions |-> <<<<s_going_to, s_gonna>>, <<s_hello, s_yo>>, <<s_the, s_da>>>>,
     characters |-> <<<<s_th, s_d>>>>,
     suffixes |-> <<<<s_ing, [detailed |-> FALSE, has_replacement |-> TRUE,
                             replacement |-> s_in_,
                             has_min_stem |-> FALSE, min_stem |-> 0]>>>>,
     prefixes |-> <<<<s_un, s_not>>>>,
     sentence_augmentation |->
         <<[punctuation |-> <<".">>, additions |-> <<<<"A">>, <<"B">>>>,
            has_frequency |-> TRUE, frequency |-> 2]>>,
     glitch |-> [isdict |-> TRUE, has_percentage |-> TRUE, percentage |-> 100,
                 has_seed |-> TRUE, seed |-> 42],
     prefix_text |-> s_pre,
     suffix_text |-> s_end,
     word_boundary |-> FALSE,
     preserve_case |-> FALSE]

\* every key, the tables in the order of from_dict and in the opposite order
FullKeys == StageKeys \o <<"prefix_text", "suffix_text">>
FullKeysReversed == [i \in DOMAIN FullKeys |-> FullKeys[Len(FullKeys) + 1 - i]]

\* the three tables of the __main__ demo, the last stage first
DemoKeys == <<"suffixes", "characters", "substitutions">>

\* a filter file without cross-call state: a substitution table, one
\* augmentation rule of frequency 1 and a prefix
StatelessConfig ==
    [DemoConfig(<<"prefix_text", "sentence_augmentation", "substitutions">>) EXCEPT
        !.sentence_augmentation =
            <<[punctuation |-> <<".">>, additions |-> <<<<"A">>, <<"B">>>>,
               has_frequency |-> FALSE, frequency |-> 1]>>]

Configs ==
    {DemoConfig(keys) : keys \in Arrangements(ConfigKeys, MaxConfigKeys)
                                    \cup {FullKeys, FullKeysReversed, DemoKeys}}
        \cup {StatelessConfig}

\* the texts handed to TextFilter.transform
PipeTexts == {t_demo, t_the_theater, t_One_Two, t_Unhappy}

\* the most TextFilter.transform calls of a run, and the most stages added by hand
MaxCalls == 2
MaxStages == 2

\* the stages TextFilter.add is handed: the three of the __main__ demo, and a
\* GlitchTransformer
ManualStages ==
    {StageFor(DemoConfig(FullKeys), key, 1) :
        key \in {"substitutions", "characters", "suffixes", "glitch"}}

\* the rules SentenceAugmenter.add_rule is handed: <<punctuation, additions,
\* frequency>>
p_dot == <<".">>
p_bang == <<"!">>
AugRuleOptions ==
    {<<p_dot, <<<<"A">>, <<"B">>>>, 1>>,
     <<p_dot, <<<<"A">>, <<"B">>>>, 2>>,
     <<p_dot, <<<<"A">>, <<"B">>>>, 3>>,
     <<p_bang, <<<<"C">>>>, 2>>,
     <<p_bang, <<<<".">>>>, 1>>}

\* the punctuation marks of those rules
AugPuncts == {o[1] : o \in AugRuleOptions}

\* the most rules of a SentenceAugmenter, and the most transform calls on it
MaxAugRules == 2
MaxAugCalls == 2

t_Hi_Yo_Go == <<"H", "i", "!", " ", "Y", "o", ".", " ", "G", "o", "!">>

\* the texts handed to SentenceAugmenter.transform: no, one, two, three and
\* four occurrences of a punctuation, at the end of the text and inside it
AugTexts ==
    {<<>>, <<"x">>, <<"x", ".">>, <<".", ".">>, <<".", "x", "!", ".">>,
     t_One_Two, t_Hi_Yo_Go}

\* the arguments of GlitchTransformer(percentage, seed) and of its transform
GlitchPercentages == {0, 50, 100}
GlitchSeeds == {42, 7}
t_Hi_42 == <<"H", "i", " ", "4", "2", "!">>
GlitchTexts == {t_Hi_42, t_the_theater}

\* the most GlitchTransformer objects constructed, the most transform calls
\* on one of them, and the most requests the web demo serves
MaxGlitchObjects == 2
MaxGlitchCalls == 1
MaxRequests == 2

\* the filter files the web demo serves: a glitch table, and a glitch given
\* as a bare percentage after a substitution table
WebConfigs ==
    {DemoConfig(<<"glitch">>),
     [DemoConfig(<<"glitch", "substitutions">>) EXCEPT
         !.glitch = [isdict |-> FALSE, has_percentage |-> FALSE, percentage |-> 50,
                     has_seed |-> FALSE, seed |-> 0]]}

\* SuffixReplacer and PrefixReplacer objects: the add_rule calls made on
\* them, the texts they transform
s_ng == <<"n", "g">>
s_n == <<"n">>
s_sing == <<"s", "i", "n", "g">>
s_SINGING == <<"S", "I", "N", "G", "I", "N", "G">>
s_Unhappy == <<"U", "n", "h", "a", "p", "p", "y">>
s_nothappy == <<"n", "o", "t", "h", "a", "p", "p", "y">>
t_singing_ring == <<"s", "i", "n", "g", "i", "n", "g", " ", "r", "i", "n", "g">>
t_singin_ring == <<"s", "i", "n", "g", "i", "n", "'", " ", "r", "i", "n", "g">>
t_goin_x == <<"g", "o", "i", "n", "'", "x">>
t_x_ab == <<"x", "'", "a", "b">>
r_Oe == <<"O", "e">>
k_B == <<"B">>

AffixCall(key, repl, min_stem) ==
    [affix |-> key, replacement |-> repl, min_stem |-> min_stem]

\* add_rule(suffix, replacement, min_stem), min_stem 2 when left out
SuffixCalls ==
    {AffixCall(s_ing, s_in_, 2), AffixCall(s_ng, s_n, 2), AffixCall(s_in_, s_ing, 2),
     AffixCall(k_a, r_Oe, 1), AffixCall(k_a, r_o, 0), AffixCall(k_aq, r_e, 1)}

\* add_rule(prefix, replacement)
PrefixCalls ==
    {AffixCall(s_un, s_not, 1), AffixCall(k_a, r_Oe, 1), AffixCall(k_B, r_o, 1),
     AffixCall(k_qa, r_e, 1)}

MaxAffixRules == 2
MaxAffixLen == 3
AffixAlphabet == {"a", "B", "'", " "}
AffixTexts ==
    Strings(AffixAlphabet, MaxAffixLen)
        \cup {t_singing_ring, s_sing, s_SINGING, t_goin_x, s_Unhappy, s_un, t_x_ab}

\* filter files: the keys of the document, in its order, and the tables under
\* them.  "good" tables hold well-formed rules, "empty" ones nothing,
\* "malformed" ones the number 5 as every replacement of the four regex
\* tables, "incomplete" ones a detailed suffix entry without 'replacement'.
FileVariants == {"good", "empty", "malformed", "incomplete"}
FileKeys == Range(StageKeys) \cup {"phrases", "words", "exclamations"}
MaxFileKeys == 2

FileSuffix(variant) ==
    [detailed |-> variant = "incomplete", has_replacement |-> variant # "incomplete",
     replacement |-> IF variant = "malformed" THEN json_5 ELSE s_in_,
     has_min_stem |-> variant = "incomplete", min_stem |-> 1]

FileConfig(keys, variant) ==
    LET bad == variant = "malformed"
        none == variant = "empty"
    IN  [keys |-> keys,
         substitutions |-> IF none THEN <<>>
                           ELSE <<<<s_hello, IF bad THEN json_5 ELSE s_yo>>>>,
         phrases |-> IF none THEN <<>> ELSE <<<<s_going_to, s_gonna>>>>,
         exclamations |-> IF none THEN <<>> ELSE <<<<s_hello, s_hey>>>>,
         words |-> IF none THEN <<>> ELSE <<<<s_the, s_da>>>>,
         characters |-> IF none THEN <<>>
                        ELSE <<<<s_th, IF bad THEN json_5 ELSE s_d>>>>,
         suffixes |-> IF none THEN <<>> ELSE <<<<s_ing, FileSuffix(variant)>>>>,
         prefixes |-> IF none THEN <<>>
                      ELSE <<<<s_un, IF bad THEN json_5 ELSE s_not>>>>,
         sentence_augmentation |->
             IF none THEN <<>> ELSE DemoConfig(keys).sentence_augmentation,
         glitch |-> [isdict |-> TRUE, has_percentage |-> ~none, percentage |-> 50,
                     has_seed |-> ~none, seed |-> 7]]

FilterFiles ==
    {FileConfig(keys, variant) :
        keys \in Arrangements(FileKeys, MaxFileKeys), variant \in FileVariants}

\* slang dictionaries of DiscoFilter
SlangKeys == {"phrases", "exclamations", "words", "affixes", "sentence_fillers"}
SlangFile(keys) ==
    [keys |-> keys,
     phrases |-> <<<<s_going_to, s_gonna>>, <<s_hello, s_yo>>>>,
     exclamations |-> <<<<s_hello, s_hey>>>>,
     words |-> <<<<s_the, s_da>>>>,
     affixes |-> [keys |-> <<"suffixes">>, suffixes |-> <<<<s_ing, FileSuffix("good")>>>>],
     sentence_fillers |-> <<<<"A">>, <<"B">>>>]

SlangFiles == {SlangFile(keys) : keys \in Arrangements(SlangKeys, MaxFileKeys)}

\* the texts handed to the filters built from files
FileTexts == {t_demo, t_the_theater, s_sing, s_Unhappy, s_going_to}

\* the objects two threads share, and the texts they hand to transform
Threads == {1, 2}
t_x_dot == <<"x", ".">>
t_a_b_dots == <<"a", ".", "b", ".">>
t_a1 == <<"a", "1">>
t_Hi_bang == <<"H", "i", "!">>

\* the percentages a filter file may hold, inside [0, 100] and outside it,
\* the texts a reused stage is handed, and the most transform calls on it
ReusePercentages == {0 - 5, 0, 50, 100, 150}
t_Hi == <<"H", "i">>
t_42_bang == <<" ", "4", "2", "!">>
ReuseTexts == {<<>>, t_Hi, t_42_bang, t_a1}
MaxReuseCalls == 2

RaceRules == {<<p_dot, <<<<"A">>, <<"B">>>>, 2>>, <<p_dot, <<<<"A">>, <<"B">>>>, 3>>}
RaceAugTexts == {t_x_dot, t_a_b_dots, t_One_Two}
RaceGlitchTexts == {t_a1, t_Hi_bang}

SharedAugmenters ==
    {AugmenterStage(SentenceAugmenter_add_rule([rules |-> <<>>, counters |-> EmptyDict],
                                               rule[1], rule[2], rule[3])) :
        rule \in RaceRules}

SharedGlitchTransformers ==
    {GlitchStage(GlitchTransformer_init(1, percentage, seed)) :
        percentage \in {50, 100}, seed \in GlitchSeeds}

NoCall == [pc |-> "idle", text |-> <<>>, counter |-> 0, result |-> <<>>, draws |-> 0,
           returned |-> 0]

(***************************************************************************)
(* The objects and their operations.                                       *)
(***************************************************************************)
\* Substitution(mappings, word_boundary, preserve_case): the compiled rules,
\* and the constructor's arguments kept beside them
Substitution(mappings, word_boundary, preserve_case) ==
    [mappings |-> mappings, word_boundary |-> word_boundary,
     preserve_case |-> preserve_case,
     rules |-> Substitution_compile_mappings(mappings, word_boundary, preserve_case)]

\* simple_filter(word_map): a TextFilter holding Substitution(word_map) only,
\* with both switches at their defaults and no prefix or suffix
simple_filter(word_map) == Substitution(word_map, TRUE, TRUE)

\* same_cap(original, replacement) is called
Call_same_cap ==
    /\ capPc = "args"
    /\ capResult' = same_cap(original, replacement)
    /\ capPc' = "returned"
    /\ UNCHANGED <<original, replacement, subVars, pipeVars, augVars, glitchVars, affixVars,
                   buildVars, raceVars>>

\* simple_filter({original: replacement}) rewrites a text that holds the key
\* three times: lower-cased, as given, and upper-cased
Call_simple_filter ==
    /\ capPc # "idle"
    /\ subPc = "new"
    /\ original # <<>>
    /\ sub' = simple_filter(<<<<original, replacement>>>>)
    /\ subText' = str_lower(original) \o <<" ">> \o original \o <<" ">> \o str_upper(original)
    /\ subResult' = RegexTransformer_transform(sub'.rules, subText')
    /\ subPc' = "returned"
    /\ UNCHANGED <<capVars, pipeVars, augVars, glitchVars, affixVars, buildVars,
                   raceVars>>

\* Substitution.__init__
Call_Substitution ==
    /\ capPc = "idle"
    /\ subPc = "new"
    /\ \E m \in SubTables, wb \in BOOLEAN, pc \in BOOLEAN :
           sub' = Substitution(m, wb, pc)
    /\ subPc' = "built"
    /\ UNCHANGED <<subText, subResult, capVars, pipeVars, augVars, glitchVars, affixVars,
                   buildVars, raceVars>>

\* Substitution.transform (RegexTransformer.transform)
Call_Substitution_transform ==
    /\ capPc = "idle"
    /\ subPc \in {"built", "returned"}
    /\ \E t \in SubTexts :
           /\ subText' = t
           /\ subResult' = RegexTransformer_transform(sub.rules, t)
    /\ subPc' = "returned"
    /\ UNCHANGED <<sub, capVars, pipeVars, augVars, glitchVars, affixVars, buildVars,
                   raceVars>>

\* filter = FilterFactory.from_dict(config)
Call_from_dict ==
    /\ tfPc = "new"
    /\ tfCalls = 0
    /\ \E c \in Configs :
           /\ conf' = c
           /\ tf' = FilterFactory_from_dict(c, 1)
    /\ tfPc' = "built"
    /\ UNCHANGED <<tfPrev, tfText, tfResult, tfTrace, tfCalls, capVars, subVars,
                   augVars, glitchVars, affixVars, buildVars, raceVars>>

\* filter.add(transformer) on a TextFilter assembled by hand
Call_add ==
    /\ tfPc \in {"new", "manual"}
    /\ tfCalls = 0
    /\ Len(tf.transformers) < MaxStages
    /\ \E st \in ManualStages : tf' = TextFilter_add(tf, st)
    /\ tfPc' = "manual"
    /\ UNCHANGED <<conf, tfPrev, tfText, tfResult, tfTrace, tfCalls, capVars, subVars,
                   augVars, glitchVars, affixVars, buildVars, raceVars>>

\* filter.set_prefix(prefix) on a TextFilter assembled by hand
Call_set_prefix ==
    /\ tfPc \in {"new", "manual"}
    /\ tfCalls = 0
    /\ tf' = TextFilter_set_prefix(tf, s_pre)
    /\ tfPc' = "manual"
    /\ UNCHANGED <<conf, tfPrev, tfText, tfResult, tfTrace, tfCalls, capVars, subVars,
                   augVars, glitchVars, affixVars, buildVars, raceVars>>

\* filter.set_suffix(suffix) on a TextFilter assembled by hand
Call_set_suffix ==
    /\ tfPc \in {"new", "manual"}
    /\ tfCalls = 0
    /\ tf' = TextFilter_set_suffix(tf, s_end)
    /\ tfPc' = "manual"
    /\ UNCHANGED <<conf, tfPrev, tfText, tfResult, tfTrace, tfCalls, capVars, subVars,
                   augVars, glitchVars, affixVars, buildVars, raceVars>>

\* filter.transform(text)
Call_transform ==
    /\ tfCalls < MaxCalls
    /\ \E t \in PipeTexts :
           LET r == TextFilter_transform(tf, t) IN
           /\ tfText' = t
           /\ tfResult' = r.result
           /\ tfTrace' = r.trace
           /\ tf' = r.filter
    /\ tfPrev' = tf
    /\ tfCalls' = tfCalls + 1
    /\ UNCHANGED <<conf, tfPc, capVars, subVars, augVars, glitchVars, affixVars,
                   buildVars, raceVars>>

\* augmenter.add_rule(punctuation, additions, frequency)
Call_add_rule ==
    /\ Len(augmenter.rules) < MaxAugRules
    /\ \E o \in AugRuleOptions :
           augmenter' = SentenceAugmenter_add_rule(augmenter, o[1], o[2], o[3])
    /\ augPc' = IF augCalls = 0 THEN "setup" ELSE "readded"
    /\ UNCHANGED <<augText, augResult, augTrace, augPrev, augSeen, augCalls,
                   capVars, subVars, pipeVars, glitchVars, affixVars, buildVars,
                   raceVars>>

\* the occurrences of the punctuation p in the texts that the rules of
\* frequency > 1 for p, from rule k on, received in a call (done as AugmentRules
\* returns it)
RECURSIVE SeenBy(_, _, _, _)
SeenBy(rules, done, p, k) ==
    IF k > Len(rules) THEN 0
    ELSE (IF rules[k][3] > 1 /\ rules[k][1] = p THEN Count(done[k].text, p[1]) ELSE 0)
             + SeenBy(rules, done, p, k + 1)

\* augmenter.transform(text)
Call_SentenceAugmenter_transform ==
    /\ augCalls < MaxAugCalls
    /\ \E t \in AugTexts :
           LET r == SentenceAugmenter_transform(augmenter.rules, augmenter.counters, t) IN
           /\ augText' = t
           /\ augResult' = r.text
           /\ augmenter' = [augmenter EXCEPT !.counters = r.counters]
           /\ augTrace' = AugmentRules(augmenter.rules,
                                       <<[text |-> t, counters |-> augmenter.counters]>>)
           /\ augSeen' = [p \in DOMAIN augSeen |->
                  augSeen[p] + SeenBy(augmenter.rules,
                                      AugmentRules(augmenter.rules,
                                          <<[text |-> t, counters |-> augmenter.counters]>>),
                                      p, 1)]
    /\ augPrev' = [text |-> augText, result |-> augResult]
    /\ augCalls' = augCalls + 1
    /\ augPc' = IF augPc = "setup" THEN "used" ELSE augPc
    /\ UNCHANGED <<capVars, subVars, pipeVars, glitchVars, affixVars, buildVars,
                   raceVars>>

\* GlitchTransformer(percentage, seed): a new object, its identity its place
\* in glitch; text and result will hold its first transform call, lastText
\* and lastResult its last one, before the generator as the last call found
\* it, allText and allResult the texts given and returned so far, end to
\* end, given the percentage the caller or the filter file named
Call_GlitchTransformer ==
    /\ Len(glitch) < MaxGlitchObjects
    /\ \E percentage \in GlitchPercentages, seed \in GlitchSeeds :
           glitch' = Append(glitch,
               [percentage |-> percentage, seed |-> seed,
                random |-> GlitchTransformer_init(Len(glitch) + 1, percentage, seed).random,
                calls |-> 0, text |-> <<>>, result |-> <<>>,
                lastText |-> <<>>, lastResult |-> <<>>,
                before |-> GlitchTransformer_init(Len(glitch) + 1, percentage, seed).random,
                allText |-> <<>>, allResult |-> <<>>,
                given |-> percentage])
    /\ UNCHANGED <<request, capVars, subVars, pipeVars, augVars, affixVars, buildVars,
                   raceVars>>

\* the object g after g.transform(t)
GlitchTransformer_called(g, t) ==
    LET r == GlitchTransformer_transform(g.percentage, g.random, t)
    IN  [g EXCEPT !.random = r.random,
                  !.calls = g.calls + 1,
                  !.text = IF g.calls = 0 THEN t ELSE g.text,
                  !.result = IF g.calls = 0 THEN r.text ELSE g.result,
                  !.lastText = t,
                  !.lastResult = r.text,
                  !.before = g.random,
                  !.allText = g.allText \o t,
                  !.allResult = g.allResult \o r.text]

\* glitch[i].transform(text)
Call_GlitchTransformer_transform ==
    /\ \E i \in DOMAIN glitch, t \in GlitchTexts :
           /\ glitch[i].calls < MaxGlitchCalls
           /\ glitch' = [glitch EXCEPT ![i] = GlitchTransformer_called(glitch[i], t)]
    /\ UNCHANGED <<request, capVars, subVars, pipeVars, augVars, affixVars, buildVars,
                   raceVars>>

\* WebDemo.transform_text(filter_id, text): a filter built for the request
\* from the file of filter_id, and used once; the GlitchTransformer from_dict
\* constructs for it, always the last stage, is a new object of glitch
Call_transform_text ==
    /\ Len(glitch) < MaxGlitchObjects
    /\ Len(request) < MaxRequests
    /\ \E config \in WebConfigs, t \in GlitchTexts :
           LET text_filter == FilterFactory_from_dict(config, Len(glitch) + 1)
               r == TextFilter_transform(text_filter, t)
               n == Len(text_filter.transformers)
           IN  /\ request' = Append(request,
                      [config |-> config, text |-> t, result |-> r.result,
                       object |-> Len(glitch) + 1])
               /\ glitch' = Append(glitch,
                      [percentage |-> text_filter.transformers[n].percentage,
                       seed |-> glitch_seed(config),
                       random |-> r.filter.transformers[n].random,
                       calls |-> 1, text |-> r.trace[n].in, result |-> r.trace[n].out,
                       lastText |-> r.trace[n].in, lastResult |-> r.trace[n].out,
                       before |-> text_filter.transformers[n].random,
                       allText |-> r.trace[n].in, allResult |-> r.trace[n].out,
                       given |-> config.glitch.percentage])
    /\ UNCHANGED <<capVars, subVars, pipeVars, augVars, affixVars, buildVars, raceVars>>

\* FilterFactory.from_dict({"glitch": {"percentage": p, "seed": seed}}) or
\* from_dict({"glitch": p}): the GlitchTransformer it constructs, the only
\* stage of the filter, is the one object of glitch
Call_from_dict_glitch ==
    /\ glitch = <<>>
    /\ \E percentage \in ReusePercentages, seed \in GlitchSeeds, isdict \in BOOLEAN :
           LET config == [DemoConfig(<<"glitch">>) EXCEPT
                             !.glitch = [isdict |-> isdict, has_percentage |-> TRUE,
                                         percentage |-> percentage,
                                         has_seed |-> TRUE, seed |-> seed]]
               stage == FilterFactory_from_dict(config, 1).transformers[1]
           IN  glitch' = <<[percentage |-> stage.percentage, seed |-> glitch_seed(config),
                            random |-> stage.random,
                            calls |-> 0, text |-> <<>>, result |-> <<>>,
                            lastText |-> <<>>, lastResult |-> <<>>,
                            before |-> stage.random,
                            allText |-> <<>>, allResult |-> <<>>,
                            given |-> percentage]>>
    /\ UNCHANGED <<request, capVars, subVars, pipeVars, augVars, affixVars, buildVars,
                   raceVars>>

\* one more transform call on that stage
Call_stage_transform ==
    /\ \E i \in DOMAIN glitch, t \in ReuseTexts :
           /\ glitch[i].calls < MaxReuseCalls
           /\ glitch' = [glitch EXCEPT ![i] = GlitchTransformer_called(glitch[i], t)]
    /\ UNCHANGED <<request, capVars, subVars, pipeVars, augVars, affixVars, buildVars,
                   raceVars>>

\* SuffixReplacer() / PrefixReplacer(): RegexTransformer.__init__, no rules
Call_AffixReplacer ==
    /\ affixPc = "none"
    /\ \E class \in {"SuffixReplacer", "PrefixReplacer"} :
           affixer' = [class |-> class, calls |-> <<>>, rules |-> <<>>]
    /\ affixPc' = "new"
    /\ UNCHANGED <<affixText, affixResult, capVars, subVars, pipeVars, augVars, glitchVars,
                   buildVars, raceVars>>

\* SuffixReplacer.add_rule(suffix, replacement, min_stem)
Call_SuffixReplacer_add_rule ==
    /\ affixPc = "new"
    /\ affixer.class = "SuffixReplacer"
    /\ Len(affixer.rules) < MaxAffixRules
    /\ \E c \in SuffixCalls :
           affixer' = [affixer EXCEPT
                         !.calls = Append(@, c),
                         !.rules = SuffixReplacer_add_rule(@, c.affix, c.replacement,
                                                           c.min_stem)]
    /\ UNCHANGED <<affixText, affixResult, affixPc, capVars, subVars, pipeVars, augVars,
                   glitchVars, buildVars, raceVars>>

\* PrefixReplacer.add_rule(prefix, replacement)
Call_PrefixReplacer_add_rule ==
    /\ affixPc = "new"
    /\ affixer.class = "PrefixReplacer"
    /\ Len(affixer.rules) < MaxAffixRules
    /\ \E c \in PrefixCalls :
           affixer' = [affixer EXCEPT
                         !.calls = Append(@, c),
                         !.rules = PrefixReplacer_add_rule(@, c.affix, c.replacement)]
    /\ UNCHANGED <<affixText, affixResult, affixPc, capVars, subVars, pipeVars, augVars,
                   glitchVars, buildVars, raceVars>>

\* transform(text) on the SuffixReplacer or PrefixReplacer (RegexTransformer.transform)
Call_AffixReplacer_transform ==
    /\ affixPc = "new"
    /\ \E text \in AffixTexts :
           /\ affixText' = text
           /\ affixResult' = RegexTransformer_transform(affixer.rules, text)
    /\ affixPc' = "used"
    /\ UNCHANGED <<affixer, capVars, subVars, pipeVars, augVars, glitchVars, buildVars,
                   raceVars>>

\* FilterFactory.from_json(json_path): json.load, then from_dict
Call_from_json ==
    /\ build.outcome = "none"
    /\ \E config \in FilterFiles :
           build' = IF from_dict_raises(config)
                        THEN [by |-> "from_json", config |-> config, outcome |-> "raised",
                              filter |-> TextFilter_init]
                        ELSE [by |-> "from_json", config |-> config, outcome |-> "returned",
                              filter |-> FilterFactory_from_dict(config, 1)]
    /\ UNCHANGED <<use, capVars, subVars, pipeVars, augVars, glitchVars, affixVars,
                   raceVars>>

\* DiscoFilter(slang_dict_path): json.load, then _build_filter
Call_DiscoFilter ==
    /\ build.outcome = "none"
    /\ \E slang \in SlangFiles :
           build' = [by |-> "DiscoFilter", config |-> slang, outcome |-> "returned",
                     filter |-> DiscoFilter_build_filter(slang)]
    /\ UNCHANGED <<use, capVars, subVars, pipeVars, augVars, glitchVars, affixVars,
                   raceVars>>

\* transform(text) on the TextFilter the build returned.  The stages that
\* can raise come before the stages that keep state, so a call that raises
\* leaves the filter as it found it.
Call_built_transform ==
    /\ build.outcome = "returned"
    /\ use.outcome = "none"
    /\ \E text \in FileTexts :
           IF TransformRaises(build.filter, text)
               THEN /\ use' = [outcome |-> "raised", text |-> text, result |-> <<>>]
                    /\ UNCHANGED build
               ELSE LET r == TextFilter_transform(build.filter, text) IN
                    /\ use' = [outcome |-> "returned", text |-> text, result |-> r.result]
                    /\ build' = [build EXCEPT !.filter = r.filter]
    /\ UNCHANGED <<capVars, subVars, pipeVars, augVars, glitchVars, affixVars, raceVars>>

\* SentenceAugmenter() with one frequency > 1 rule, or GlitchTransformer(...)
Call_shared ==
    /\ shared.stage.kind = "none"
    /\ \E stage \in SharedAugmenters \cup SharedGlitchTransformers :
           shared' = [stage |-> stage, initial |-> stage]
    /\ UNCHANGED <<thread, capVars, subVars, pipeVars, augVars, glitchVars, affixVars,
                   buildVars>>

\* how many calls have returned
Returned == Cardinality({t \in Threads : thread[t].pc = "done"})

\* a thread enters transform(text)
Thread_call(t) ==
    /\ shared.stage.kind # "none"
    /\ thread[t].pc = "idle"
    /\ \E text \in IF shared.stage.kind = "SentenceAugmenter" THEN RaceAugTexts
                   ELSE RaceGlitchTexts :
           thread' = [thread EXCEPT ![t] =
                         [NoCall EXCEPT !.text = text,
                                        !.pc = IF shared.stage.kind = "SentenceAugmenter"
                                                   THEN "read" ELSE "randint"]]
    /\ UNCHANGED <<shared, capVars, subVars, pipeVars, augVars, glitchVars, affixVars,
                   buildVars>>

\* counter = self._counters.get(punct, 0)
Thread_read(t) ==
    /\ thread[t].pc = "read"
    /\ thread' = [thread EXCEPT ![t].counter =
                      dict_get(shared.stage.counters, shared.stage.rules[1][1], 0),
                                ![t].pc = "write"]
    /\ UNCHANGED <<shared, capVars, subVars, pipeVars, augVars, glitchVars, affixVars,
                   buildVars>>

\* the loop over the parts, self._counters[punct] = counter, and the return
Thread_write(t) ==
    /\ thread[t].pc = "write"
    /\ LET r == Augmenter_write(shared.stage, thread[t]) IN
       /\ shared' = [shared EXCEPT !.stage.counters = r.counters]
       /\ thread' = [thread EXCEPT ![t].result = r.text,
                                   ![t].pc = "done",
                                   ![t].returned = Returned + 1]
    /\ UNCHANGED <<capVars, subVars, pipeVars, augVars, glitchVars, affixVars, buildVars>>

\* the pc of a GlitchTransformer.transform call that has built result
AfterChar(t, result) == IF Len(result) >= Len(thread[t].text) THEN "done" ELSE "randint"

\* one round of the loop of GlitchTransformer.transform: char.isalnum() and
\* self.random.randint(1, 100) <= self.percentage
Thread_randint(t) ==
    /\ thread[t].pc = "randint"
    /\ LET c == thread[t].text[Len(thread[t].result) + 1]
           state == Random_next(shared.stage.random)
           kept == Append(thread[t].result, c)
       IN  IF ~char_isalnum(c)
               THEN /\ thread' = [thread EXCEPT
                                      ![t].result = kept,
                                      ![t].pc = AfterChar(t, kept),
                                      ![t].returned = IF AfterChar(t, kept) = "done"
                                                          THEN Returned + 1 ELSE 0]
                    /\ UNCHANGED shared
               ELSE /\ shared' = [shared EXCEPT !.stage.random = state]
                    /\ IF randint_1_100(state) <= shared.stage.percentage
                           THEN thread' = [thread EXCEPT ![t].pc = "choice",
                                                         ![t].draws = @ + 1]
                           ELSE thread' = [thread EXCEPT
                                      ![t].result = kept,
                                      ![t].draws = @ + 1,
                                      ![t].pc = AfterChar(t, kept),
                                      ![t].returned = IF AfterChar(t, kept) = "done"
                                                          THEN Returned + 1 ELSE 0]
    /\ UNCHANGED <<capVars, subVars, pipeVars, augVars, glitchVars, affixVars, buildVars>>

\* result.append(self.random.choice(self.GLITCH_CHARS))
Thread_choice(t) ==
    /\ thread[t].pc = "choice"
    /\ LET state == Random_next(shared.stage.random)
           glitched == Append(thread[t].result, choice_glitch(state))
       IN  /\ shared' = [shared EXCEPT !.stage.random = state]
           /\ thread' = [thread EXCEPT
                             ![t].result = glitched,
                             ![t].draws = @ + 1,
                             ![t].pc = AfterChar(t, glitched),
                             ![t].returned = IF AfterChar(t, glitched) = "done"
                                                 THEN Returned + 1 ELSE 0]
    /\ UNCHANGED <<capVars, subVars, pipeVars, augVars, glitchVars, affixVars, buildVars>>

\* nothing constructed, nothing called yet
AugIdle ==
    /\ augmenter = [rules |-> <<>>, counters |-> EmptyDict]
    /\ augText = <<>>
    /\ augResult = <<>>
    /\ augTrace = <<>>
    /\ augPrev = [text |-> <<>>, result |-> <<>>]
    /\ augSeen = [p \in AugPuncts |-> 0]
    /\ augCalls = 0
    /\ augPc = "setup"

GlitchIdle ==
    /\ glitch = <<>>
    /\ request = <<>>

PipeIdle ==
    /\ conf = DemoConfig(<<>>)
    /\ tf = TextFilter_init
    /\ tfPrev = TextFilter_init
    /\ tfText = <<>>
    /\ tfResult = <<>>
    /\ tfTrace = <<>>
    /\ tfCalls = 0
    /\ tfPc = "new"

CapIdle == original = <<>> /\ replacement = <<>> /\ capResult = <<>> /\ capPc = "idle"
SubIdle ==
    /\ sub = Substitution(<<>>, TRUE, TRUE)
    /\ subText = <<>>
    /\ subResult = <<>>
    /\ subPc = "new"

\* same_cap on every pair of a bounded original and replacement
AffixIdle ==
    /\ affixer = [class |-> "none", calls |-> <<>>, rules |-> <<>>]
    /\ affixText = <<>>
    /\ affixResult = <<>>
    /\ affixPc = "none"

BuildIdle ==
    /\ build = [by |-> "none", config |-> [keys |-> <<>>], outcome |-> "none",
                filter |-> TextFilter_init]
    /\ use = [outcome |-> "none", text |-> <<>>, result |-> <<>>]

RaceIdle ==
    /\ shared = [stage |-> Stage("none", <<>>, EmptyDict, 0, 0),
                 initial |-> Stage("none", <<>>, EmptyDict, 0, 0)]
    /\ thread = [t \in Threads |-> NoCall]

InitCap ==
    /\ original \in CapOriginals
    /\ replacement \in CapReplacements
    /\ capResult = <<>>
    /\ capPc = "args"
    /\ SubIdle
    /\ PipeIdle
    /\ AugIdle
    /\ GlitchIdle
    /\ AffixIdle
    /\ BuildIdle
    /\ RaceIdle

NextCap == Call_same_cap \/ Call_simple_filter

SpecCap == InitCap /\ [][NextCap]_vars

\* one Substitution stage, built from a table and used on texts
InitSub == CapIdle /\ SubIdle /\ PipeIdle /\ AugIdle /\ GlitchIdle /\ AffixIdle /\ BuildIdle /\ RaceIdle

NextSub == Call_Substitution \/ Call_Substitution_transform

SpecSub == InitSub /\ [][NextSub]_vars

\* a TextFilter, built by from_dict or by hand, and used on texts
Init == CapIdle /\ SubIdle /\ PipeIdle /\ AugIdle /\ GlitchIdle /\ AffixIdle /\ BuildIdle /\ RaceIdle

Next ==
    \/ Call_from_dict
    \/ Call_add
    \/ Call_set_prefix
    \/ Call_set_suffix
    \/ Call_transform

Spec == Init /\ [][Next]_vars

\* a SentenceAugmenter, given rules and used on texts
InitAug == CapIdle /\ SubIdle /\ PipeIdle /\ AugIdle /\ GlitchIdle /\ AffixIdle /\ BuildIdle /\ RaceIdle

NextAug == Call_add_rule \/ Call_SentenceAugmenter_transform

SpecAug == InitAug /\ [][NextAug]_vars

\* GlitchTransformer objects, and the requests of the web demo
InitGlitch == CapIdle /\ SubIdle /\ PipeIdle /\ AugIdle /\ GlitchIdle /\ AffixIdle /\ BuildIdle /\ RaceIdle

NextGlitch ==
    \/ Call_GlitchTransformer
    \/ Call_GlitchTransformer_transform
    \/ Call_transform_text

SpecGlitch == InitGlitch /\ [][NextGlitch]_vars

\* one GlitchTransformer, built by from_dict and used call after call
InitReuse == CapIdle /\ SubIdle /\ PipeIdle /\ AugIdle /\ GlitchIdle /\ AffixIdle /\ BuildIdle /\ RaceIdle

NextReuse == Call_from_dict_glitch \/ Call_stage_transform

SpecReuse == InitReuse /\ [][NextReuse]_vars

\* one SuffixReplacer or PrefixReplacer, given rules and used on texts
InitAffix == CapIdle /\ SubIdle /\ PipeIdle /\ AugIdle /\ GlitchIdle /\ AffixIdle /\ BuildIdle /\ RaceIdle

NextAffix ==
    \/ Call_AffixReplacer
    \/ Call_SuffixReplacer_add_rule
    \/ Call_PrefixReplacer_add_rule
    \/ Call_AffixReplacer_transform

SpecAffix == InitAffix /\ [][NextAffix]_vars

\* one filter file, built into a TextFilter that is used once
InitBuild ==
    CapIdle /\ SubIdle /\ PipeIdle /\ AugIdle /\ GlitchIdle /\ AffixIdle /\ BuildIdle /\ RaceIdle

NextBuild == Call_from_json \/ Call_DiscoFilter \/ Call_built_transform

SpecBuild == InitBuild /\ [][NextBuild]_vars

\* one SentenceAugmenter or GlitchTransformer, and two threads that each
\* call transform on it once, their steps interleaved in every way
InitRace ==
    /\ CapIdle /\ SubIdle /\ PipeIdle /\ AugIdle /\ GlitchIdle /\ AffixIdle /\ BuildIdle
    /\ RaceIdle

NextRace ==
    \/ Call_shared
    \/ \E t \in Threads :
           \/ Thread_call(t)
           \/ Thread_read(t)
           \/ Thread_write(t)
           \/ Thread_randint(t)
           \/ Thread_choice(t)

SpecRace == InitRace /\ [][NextRace]_vars

(***************************************************************************)
(* Properties.                                                             *)
(***************************************************************************)
\* The three rules of the capitalization adapter, as the specification
\* words them.
CapShape(o, r) ==
    IF o = <<>> \/ r = <<>> THEN r
    ELSE IF (\E i \in DOMAIN o : o[i] \in UpperChars)
            /\ ~(\E i \in DOMAIN o : o[i] \in LowerChars)
        THEN [i \in DOMAIN r |-> char_upper(r[i])]
    ELSE [i \in DOMAIN r |->
             IF i > 1 THEN r[i]
             ELSE IF o[1] \in UpperChars THEN char_upper(r[1]) ELSE char_lower(r[1])]

\* seg is an occurrence of the multi-word key: the key's words, in the
\* key's case, separated by runs of whitespace
PhraseOcc(key, seg) ==
    /\ seg # <<>>
    /\ seg[1] \notin SpaceChars
    /\ seg[Len(seg)] \notin SpaceChars
    /\ str_split_ws(seg) = str_split_ws(key)

\* key k is nested inside the longer key p
Nested(k, p) ==
    /\ Len(k) < Len(p)
    /\ \E i \in 1..(Len(p) - Len(k) + 1) : SubSeq(p, i, i + Len(k) - 1) = k

\* no key of the table occurs anywhere in s, in any capitalization
KeyFree(s, table) ==
    \A n \in DOMAIN table : \A pos \in 0..Len(s) :
        MatchFrom(SubstitutionRule(table[n][1], table[n][2], FALSE, TRUE).pattern,
                  1, s, pos, TRUE) = -1

\* text[i..j] has no word character next to it on either side
Delimited(text, i, j) ==
    /\ i = 1 \/ text[i - 1] \notin WordChars
    /\ j = Len(text) \/ text[j + 1] \notin WordChars

\* C1: whenever the table holds a multi-word key and a shorter key nested in
\* it, and the input holds the phrase (and nothing else a key could match),
\* the output is the input with the phrase replaced by the phrase's own
\* replacement: "I am going to run" gives "I am gonna run", whatever the
\* insertion order.
C1_LongestMatchFirst ==
    subPc = "returned" =>
        \A p \in DOMAIN sub.mappings, k \in DOMAIN sub.mappings :
            (/\ " " \in {sub.mappings[p][1][x] : x \in DOMAIN sub.mappings[p][1]}
             /\ Nested(sub.mappings[k][1], sub.mappings[p][1])) =>
            \A i \in DOMAIN subText, j \in DOMAIN subText :
                (/\ i <= j
                 /\ PhraseOcc(sub.mappings[p][1], SubSeq(subText, i, j))
                 /\ sub.word_boundary => Delimited(subText, i, j)
                 /\ KeyFree(SubSeq(subText, 1, i - 1), sub.mappings)
                 /\ KeyFree(SubSeq(subText, j + 1, Len(subText)), sub.mappings)) =>
                subResult =
                    SubSeq(subText, 1, i - 1)
                        \o (IF sub.preserve_case
                                THEN CapShape(SubSeq(subText, i, j), sub.mappings[p][2])
                                ELSE sub.mappings[p][2])
                        \o SubSeq(subText, j + 1, Len(subText))

\* C2: same_cap follows the three rules in order (all upper-case: the
\* replacement upper-cased; first character upper-case: only the first
\* character upper-cased; otherwise: the first character lower-cased; the
\* rest exactly as supplied; an empty argument: the replacement unchanged),
\* and every match of one rule is shaped on its own: {"hello": "hey"} maps
\* "Hello" to "Hey", "HELLO" to "HEY" and "hello" to "hey".
C2_SameCapRules ==
    /\ capPc = "returned" =>
        /\ (original = <<>> \/ replacement = <<>>) => capResult = replacement
        /\ (original # <<>> /\ replacement # <<>>) =>
            /\ Len(capResult) = Len(replacement)
            /\ \A i \in 2..Len(replacement) :
                   capResult[i] = IF str_isupper(original)
                                      THEN char_upper(replacement[i])
                                      ELSE replacement[i]
            /\ capResult[1] = IF str_isupper(original) \/ original[1] \in UpperChars
                                  THEN char_upper(replacement[1])
                                  ELSE char_lower(replacement[1])
    /\ (subPc = "returned" /\ capPc # "idle") =>
        /\ subResult = CapShape(str_lower(original), replacement) \o <<" ">>
                           \o CapShape(original, replacement) \o <<" ">>
                           \o CapShape(str_upper(original), replacement)
        /\ (str_lower(original) = s_hello /\ replacement = s_hey) =>
               subResult = s_hey \o <<" ">>
                               \o (IF original = t_Hello THEN t_Hey
                                   ELSE IF original = t_HELLO THEN t_HEY ELSE s_hey)
                               \o <<" ">> \o t_HEY

\* C2 is exercised: "Hello" with "hey" gave "Hey" from same_cap and
\* "hey Hey HEY" from the filter.
C2_Witness ==
    /\ capPc = "returned"
    /\ subPc = "returned"
    /\ original = t_Hello
    /\ replacement = s_hey
    /\ capResult = t_Hey
    /\ subResult = s_hey \o <<" ">> \o t_Hey \o <<" ">> \o t_HEY

\* C3: with word_boundary on, no span a rule replaces has a word character
\* immediately before it or immediately after it.
C3_WordBoundary ==
    (subPc = "returned" /\ sub.word_boundary) =>
        \A r \in DOMAIN sub.rules :
            LET in == RuleInputs(sub.rules, subText)[r]
                spans == SpansFrom(sub.rules[r], in, 0)
            IN  \A n \in DOMAIN spans :
                    /\ ~(spans[n][1] >= 1 /\ in[spans[n][1]] \in WordChars)
                    /\ ~(spans[n][2] < Len(in) /\ in[spans[n][2] + 1] \in WordChars)

\* C4: with preserve_case off, an input that is the key in another
\* capitalization is still matched and becomes the replacement verbatim.
C4_CaseInsensitive ==
    (/\ subPc = "returned"
     /\ capPc = "idle"
     /\ ~sub.preserve_case
     /\ Len(sub.mappings) = 1
     /\ subText # <<>>
     /\ \A i \in DOMAIN subText : subText[i] \in AlphaChars
     /\ str_lower(subText) = str_lower(sub.mappings[1][1])) =>
        subResult = sub.mappings[1][2]

\* C5: TextFilter.transform hands the text to the first stage and every
\* stage's output to the next stage, in the order the stages were added, and
\* returns prefix + output of the last stage + suffix (prefix + text + suffix
\* when there is no stage); no stage receives the prefix or the suffix.
C5_PipelineThreading ==
    tfCalls > 0 =>
        LET stages == tfPrev.transformers
            n == Len(stages)
        IN  /\ Len(tfTrace) = n
            /\ \A k \in 1..n :
                   /\ tfTrace[k].in = (IF k = 1 THEN tfText ELSE tfTrace[k - 1].out)
                   /\ tfTrace[k].out = Transformer_transform(stages[k], tfTrace[k].in).text
            /\ tfResult = tfPrev.prefix
                              \o (IF n = 0 THEN tfText ELSE tfTrace[n].out)
                              \o tfPrev.suffix

\* a filter of a rewriting stage and a glitch stage, with a prefix and a
\* suffix, has transformed a text, and both stages changed what they received
C5_Witness ==
    /\ tfCalls > 0
    /\ tfPrev.prefix = s_pre
    /\ tfPrev.suffix = s_end
    /\ Len(tfPrev.transformers) = 2
    /\ tfPrev.transformers[2].kind = "GlitchTransformer"
    /\ tfTrace[1].out # tfText
    /\ tfTrace[2].out # tfTrace[2].in
    /\ SubSeq(tfResult, 1, Len(s_pre)) = s_pre

\* the stage classes, in the canonical order
CanonicalKinds ==
    <<"Substitution", "CharacterSubstitution", "SuffixReplacer", "PrefixReplacer",
      "SentenceAugmenter", "GlitchTransformer">>

\* the place of a stage class in the canonical order
CanonicalPlace(kind) == CHOOSE i \in DOMAIN CanonicalKinds : CanonicalKinds[i] = kind

\* C6: whatever the order of the configuration's keys, the stages from_dict
\* builds are one for each table present, in the order Substitution,
\* CharacterSubstitution, SuffixReplacer, PrefixReplacer, SentenceAugmenter,
\* GlitchTransformer; a character rule rewrites the substitution's output:
\* {"the": "da"} and {"th": "d"} turn "the theater" into "da deater".
C6_CanonicalStageOrder ==
    tfPc = "built" =>
        LET stages == tf.transformers IN
        /\ \A i \in DOMAIN CanonicalKinds :
               HasKey(conf, StageKeys[i])
                   <=> \E k \in DOMAIN stages : stages[k].kind = CanonicalKinds[i]
        /\ \A j, k \in DOMAIN stages :
               j < k => CanonicalPlace(stages[j].kind) < CanonicalPlace(stages[k].kind)
        /\ (/\ tfCalls > 0
            /\ HasKey(conf, "substitutions")
            /\ HasKey(conf, "characters"))
               => /\ stages[1].kind = "Substitution"
                  /\ stages[2].kind = "CharacterSubstitution"
                  /\ tfTrace[1].in = tfText
                  /\ tfTrace[2].in = tfTrace[1].out
                  /\ tfTrace[2].out
                         = RegexTransformer_transform(stages[2].rules, tfTrace[1].out)
        /\ (/\ tfCalls = 1
            /\ Range(conf.keys) = {"substitutions", "characters"}
            /\ tfText = t_the_theater)
               => tfResult = t_da_deater
        /\ (tfCalls = 1 /\ conf.keys = DemoKeys /\ tfText = t_demo)
               => tfResult = t_demo_out

\* a configuration naming the character table before the substitution table
\* has rewritten "the theater", the substitution running first
C6_Witness ==
    /\ tfPc = "built"
    /\ tfCalls = 1
    /\ conf.keys = <<"characters", "substitutions">>
    /\ tfText = t_the_theater
    /\ tfTrace[1].out = t_da_theater
    /\ tfResult = t_da_deater

\* out is text with an addition of the rule inserted after exactly those
\* occurrences of the rule's punctuation whose number, counted from counter,
\* is a multiple of the rule's frequency (text read from i, out from j)
RECURSIVE GatedFrom(_, _, _, _, _, _)
GatedFrom(text, i, out, j, rule, counter) ==
    IF i > Len(text) THEN j = Len(out) + 1
    ELSE /\ j <= Len(out)
         /\ out[j] = text[i]
         /\ IF text[i] # rule[1][1] THEN GatedFrom(text, i + 1, out, j + 1, rule, counter)
            ELSE IF counter % rule[3] # 0
                THEN GatedFrom(text, i + 1, out, j + 1, rule, counter + 1)
            ELSE \E a \in Range(rule[2]) :
                    /\ j + Len(a) <= Len(out)
                    /\ SubSeq(out, j + 1, j + Len(a)) = a
                    /\ GatedFrom(text, i + 1, out, j + 1 + Len(a), rule, counter + 1)

\* C7: a rule of frequency N > 1 appends an addition after exactly those
\* occurrences of its punctuation whose zero-based number, the persistent
\* counter, is a multiple of N; the counters of a fresh stage are 0, so the
\* first occurrence is augmented, and frequency 2 on "One. Two. Three. Four."
\* augments the 1st and the 3rd "." only.
C7_FrequencyGating ==
    augCalls > 0 =>
        /\ \A k \in 1..(Len(augTrace) - 1) :
               augmenter.rules[k][3] > 1 =>
                   GatedFrom(augTrace[k].text, 1, augTrace[k + 1].text, 1, augmenter.rules[k],
                             dict_get(augTrace[k].counters, augmenter.rules[k][1], 0))
        /\ augCalls = 1 => \A p \in DOMAIN augTrace[1].counters : augTrace[1].counters[p] = 0
        /\ (/\ augCalls = 1
            /\ Len(augTrace) = 2
            /\ augmenter.rules[1] = <<p_dot, <<<<"A">>, <<"B">>>>, 2>>
            /\ augText = t_One_Two)
               => augResult = t_One_Two_A

\* a fresh stage with the one rule {".", ["A", "B"], 2} has transformed
\* "One. Two. Three. Four."
C7_Witness ==
    /\ augCalls = 1
    /\ Len(augTrace) = 2
    /\ augmenter.rules[1] = <<p_dot, <<<<"A">>, <<"B">>>>, 2>>
    /\ augText = t_One_Two
    /\ augResult = t_One_Two_A

\* out is text with additions inserted as GatedFrom has them, the n-th
\* inserted addition (n from 0) being entry n mod len of the rule's list
RECURSIVE CycledFrom(_, _, _, _, _, _, _)
CycledFrom(text, i, out, j, rule, counter, n) ==
    IF i > Len(text) THEN j = Len(out) + 1
    ELSE /\ j <= Len(out)
         /\ out[j] = text[i]
         /\ IF text[i] # rule[1][1] THEN CycledFrom(text, i + 1, out, j + 1, rule, counter, n)
            ELSE IF counter % rule[3] # 0
                THEN CycledFrom(text, i + 1, out, j + 1, rule, counter + 1, n)
            ELSE LET a == rule[2][(n % Len(rule[2])) + 1] IN
                 /\ j + Len(a) <= Len(out)
                 /\ SubSeq(out, j + 1, j + Len(a)) = a
                 /\ CycledFrom(text, i + 1, out, j + 1 + Len(a), rule, counter + 1, n + 1)

\* C8: under a frequency > 1 the additions appended at successive augmented
\* occurrences follow the cycle of the additions list: the first augmentation
\* of a fresh stage appends the first entry, the next one the second, ...
C8_AdditionCycling ==
    (augCalls = 1 /\ Len(augTrace) = 2 /\ augmenter.rules[1][3] > 1)
        => CycledFrom(augText, 1, augResult, 1, augmenter.rules[1], 0, 0)

\* no two rules of frequency > 1 for the same punctuation, and no rule added
\* after a transform call
OneCountingRulePerPunctuation ==
    /\ augPc # "readded"
    /\ \A j, k \in DOMAIN augmenter.rules :
           (/\ j # k
            /\ augmenter.rules[j][3] > 1
            /\ augmenter.rules[k][3] > 1) => augmenter.rules[j][1] # augmenter.rules[k][1]

\* C9: with one frequency > 1 rule per punctuation, after any sequence of
\* transform calls the counter of the rule's punctuation is the number of
\* occurrences of the punctuation that the rule has seen over all the calls;
\* no call resets it.
C9_CounterPersistence ==
    OneCountingRulePerPunctuation =>
        \A k \in DOMAIN augmenter.rules :
            augmenter.rules[k][3] > 1 =>
                /\ augmenter.rules[k][1] \in DOMAIN augmenter.counters
                /\ augmenter.counters[augmenter.rules[k][1]] = augSeen[augmenter.rules[k][1]]

\* a stage with one rule of frequency > 1 has transformed the same text twice
\* and returned two different results, its counter the occurrences of both calls
C9_Witness ==
    /\ augCalls = 2
    /\ augPc = "used"
    /\ Len(augmenter.rules) = 1
    /\ augmenter.rules[1][3] > 1
    /\ augPrev.text = augText
    /\ augPrev.result # augResult
    /\ augmenter.counters[augmenter.rules[1][1]] = 2 * Count(augText, augmenter.rules[1][1][1])

C11_GlitchShape ==
    \A i \in DOMAIN glitch :
        glitch[i].calls > 0 =>
            LET text == glitch[i].lastText
                result == glitch[i].lastResult
            IN  /\ Len(result) = Len(text)
                /\ \A k \in DOMAIN text :
                       IF char_isalnum(text[k])
                           THEN result[k] = text[k] \/ result[k] \in Range(GLITCH_CHARS)
                           ELSE result[k] = text[k]

\* an object has returned a text in which one alphanumeric character is
\* glitched, another is not, and a space and a "!" stand unchanged
C11_Witness ==
    \E i \in DOMAIN glitch :
        /\ glitch[i].calls > 0
        /\ glitch[i].lastText = t_Hi_42
        /\ \E j, k \in DOMAIN t_Hi_42 :
               /\ glitch[i].lastResult[j] \in Range(GLITCH_CHARS)
               /\ char_isalnum(t_Hi_42[k])
               /\ glitch[i].lastResult[k] = t_Hi_42[k]
        /\ glitch[i].lastResult[3] = " "
        /\ glitch[i].lastResult[6] = "!"

\* The SuffixReplacer rule made by the k-th add_rule call replaced, in the
\* text it received, only spans that are at least min_stem letters followed
\* by the suffix (in any capitalization), the suffix ending a word: no word
\* character follows it.
SuffixGuard(k) ==
    LET call == affixer.calls[k]
        text == RuleInputs(affixer.rules, affixText)[k]
        spans == SpansFrom(affixer.rules[k], text, 0)
    IN  \A i \in DOMAIN spans :
            LET start == spans[i][1]
                end == spans[i][2]
                stem == end - Len(call.affix)
            IN  /\ stem - start >= call.min_stem
                /\ \A q \in (start + 1)..stem : text[q] \in AlphaChars
                /\ str_lower(SubSeq(text, stem + 1, end)) = str_lower(call.affix)
                /\ end = Len(text) \/ text[end + 1] \notin WordChars

\* C12: a SuffixReplacer rule (suffix, replacement, min_stem m) rewrites a
\* word only when at least m alphabetic characters immediately precede the
\* suffix and the suffix ends the word; with "ing" -> "in'" and m = 2,
\* "singing ring" becomes "singin' ring" and "sing" is left unchanged.
C12_SuffixStemGuard ==
    (affixPc = "used" /\ affixer.class = "SuffixReplacer") =>
        /\ \A k \in DOMAIN affixer.rules : SuffixGuard(k)
        /\ affixer.calls = <<AffixCall(s_ing, s_in_, 2)>> =>
               /\ affixText = t_singing_ring => affixResult = t_singin_ring
               /\ affixText = s_sing => affixResult = s_sing

\* What an affix rule is to put in the place of the span start..end of text:
\* the stem as found and the replacement as configured (a suffix rule), the
\* replacement as configured and the remainder as found (a prefix rule).
AffixPiece(class, call, text, start, end) ==
    IF class = "SuffixReplacer"
        THEN SubSeq(text, start + 1, end - Len(call.affix)) \o call.replacement
        ELSE call.replacement \o SubSeq(text, start + Len(call.affix) + 1, end)

\* text from pos on, the spans i.. replaced by their pieces
RECURSIVE AffixSplice(_, _, _, _, _, _)
AffixSplice(class, call, text, spans, i, pos) ==
    IF i > Len(spans) THEN SubSeq(text, pos + 1, Len(text))
    ELSE SubSeq(text, pos + 1, spans[i][1])
             \o AffixPiece(class, call, text, spans[i][1], spans[i][2])
             \o AffixSplice(class, call, text, spans, i + 1, spans[i][2])

\* The PrefixReplacer rule made by the k-th add_rule call replaced only spans
\* that start a word (no word character before them) and are the prefix, in
\* any capitalization, followed by one or more letters.
PrefixShape(k) ==
    LET call == affixer.calls[k]
        text == RuleInputs(affixer.rules, affixText)[k]
        spans == SpansFrom(affixer.rules[k], text, 0)
    IN  \A i \in DOMAIN spans :
            LET start == spans[i][1]
                end == spans[i][2]
                rest == start + Len(call.affix)
            IN  /\ start = 0 \/ text[start] \notin WordChars
                /\ str_lower(SubSeq(text, start + 1, rest)) = str_lower(call.affix)
                /\ end > rest
                /\ \A q \in (rest + 1)..end : text[q] \in AlphaChars

\* Every rule of the SuffixReplacer or PrefixReplacer returned the text it
\* received with each matched span replaced by its piece, nothing adapted.
NoCaseAdaptation ==
    LET results == RuleResults(affixer.rules, <<affixText>>) IN
    \A k \in DOMAIN affixer.rules :
        results[k + 1] = AffixSplice(affixer.class, affixer.calls[k], results[k],
                                     SpansFrom(affixer.rules[k], results[k], 0), 1, 0)

\* C13: affix replacement does no case adaptation: for every suffix or prefix
\* match the output is the matched stem (or remainder) with its case as found,
\* concatenated with the replacement exactly as configured; a prefix rule
\* matches the prefix at a word start followed by one or more alphabetic
\* characters; prefix "un" -> "not" turns "Unhappy" into "nothappy".
C13_NoCaseAdaptation ==
    affixPc = "used" =>
        /\ NoCaseAdaptation
        /\ affixer.class = "PrefixReplacer" =>
               /\ \A k \in DOMAIN affixer.rules : PrefixShape(k)
               /\ (affixer.calls = <<AffixCall(s_un, s_not, 1)>> /\ affixText = s_Unhappy) =>
                      affixResult = s_nothappy

\* the recognized tables of the configuration that are not empty; a glitch
\* given as a dict is empty when it holds neither percentage nor seed
NonEmptyTables(config) ==
    {key \in Range(StageKeys) :
        /\ HasKey(config, key)
        /\ IF key = "glitch"
               THEN config.glitch.isdict =>
                        (config.glitch.has_percentage \/ config.glitch.has_seed)
               ELSE config[key] # <<>>}

\* C14: FilterFactory.from_dict adds no stage for a rule table that is
\* absent and none for a table that is present but empty; the number of
\* stages of the built pipeline is the number of non-empty recognized tables.
C14_StageOmission ==
    (build.by = "from_json" /\ build.outcome = "returned") =>
        Len(build.filter.transformers) = Cardinality(NonEmptyTables(build.config))

\* the tables of the vocabulary keys the configuration holds, merged: a
\* later table overwrites an earlier one on a key collision
VocabularyKeys == <<"substitutions", "phrases", "exclamations", "words">>

RECURSIVE MergedVocabulary(_, _, _)
MergedVocabulary(config, keys, merged) ==
    IF keys = <<>> THEN merged
    ELSE MergedVocabulary(config, Tail(keys),
             IF HasKey(config, keys[1]) THEN table_update(merged, config[keys[1]])
             ELSE merged)

\* C15: the configuration keys substitutions, phrases, words and
\* exclamations are all merged into the single Substitution stage of the
\* built pipeline, a later table overwriting an earlier one (phrases, then
\* exclamations, then words), so a rule given only under "phrases" or
\* "words" is applied by the pipeline that the build returns.
C15_VocabularyMerging ==
    (/\ build.outcome = "returned"
     /\ MergedVocabulary(build.config, VocabularyKeys, <<>>) # <<>>) =>
        LET stages == build.filter.transformers
            merged == MergedVocabulary(build.config, VocabularyKeys, <<>>)
        IN  /\ stages # <<>>
            /\ stages[1].kind = "Substitution"
            /\ stages[1].rules = Substitution_compile_mappings(merged, TRUE, TRUE)
            /\ \A k \in 2..Len(stages) : stages[k].kind # "Substitution"
            /\ (/\ build.config.keys = <<"phrases">>
                /\ use.outcome = "returned"
                /\ use.text = s_going_to) => use.result = s_gonna

\* a recognized table the configuration holds has a malformed entry: a
\* replacement that is not a string, or a detailed suffix without one
Malformed(config) ==
    \/ \E key \in {"substitutions", "characters", "prefixes"} :
           /\ HasKey(config, key)
           /\ \E i \in DOMAIN config[key] : config[key][i][2] \in NonStrings
    \/ /\ HasKey(config, "suffixes")
       /\ \E i \in DOMAIN config.suffixes :
              \/ ~config.suffixes[i][2].has_replacement
              \/ config.suffixes[i][2].replacement \in NonStrings

\* C16: when a recognized table contains a malformed entry (e.g. a
\* non-string replacement in substitutions, characters, suffixes or
\* prefixes), FilterFactory.from_dict itself fails and returns no pipeline;
\* it never returns a pipeline whose later transform call fails.
C16_FailFast ==
    build.by = "from_json" =>
        /\ Malformed(build.config) => build.outcome = "raised"
        /\ build.outcome = "returned" => use.outcome # "raised"

\* both threads' calls have returned
BothReturned == \A t \in Threads : thread[t].pc = "done"

\* what the two calls return and leave when the call of thread first runs
\* to its end before the other one starts
Sequential(first) ==
    LET second == CHOOSE t \in Threads : t # first
        one == Transformer_transform(shared.initial, thread[first].text)
        two == Transformer_transform(one.stage, thread[second].text)
    IN  [stage |-> two.stage,
         result |-> [t \in Threads |-> IF t = first THEN one.text ELSE two.text]]

\* the stage and the two results are those of neither sequential order
LikeNoSequentialOrder ==
    \A first \in Threads :
        /\ Sequential(first).stage # shared.stage
        /\ Sequential(first).result # [t \in Threads |-> thread[t].result]

\* C17: two transform calls on the same SentenceAugmenter (frequency > 1)
\* or GlitchTransformer that interleave are not safe: each call of the
\* augmenter works from the counter it read at its start and the counter
\* left is the one the last call to return wrote back, whatever the other
\* call wrote in between (a lost update); the generator is stepped by the
\* draws of both calls as they come, so each call's glitches depend on the
\* other's; the state and the outputs can differ from both sequential orders.
C17_UnsafeConcurrentReuse ==
    BothReturned =>
        /\ shared.stage.kind = "SentenceAugmenter" =>
               LET rule == shared.stage.rules[1]
                   last == CHOOSE t \in Threads : thread[t].returned = 2
               IN  /\ \A t \in Threads :
                          thread[t].result =
                              AugmentNth(str_split(thread[t].text, rule[1]), rule[1],
                                         rule[2], rule[3], thread[t].counter).text
                   /\ shared.stage.counters[rule[1]] =
                          thread[last].counter
                              + Len(str_split(thread[last].text, rule[1])) - 1
        /\ shared.stage.kind = "GlitchTransformer" =>
               /\ shared.stage.random =
                      Random_advance(shared.initial.random,
                                     thread[1].draws + thread[2].draws)
               /\ \A t \in Threads : Len(thread[t].result) = Len(thread[t].text)

\* both calls read the counter 0 before either wrote it back: each returns
\* what a first call returns, one update is lost, and the counter and the
\* outputs are those of neither sequential order
C17_Witness ==
    /\ BothReturned
    /\ shared.stage.kind = "SentenceAugmenter"
    /\ \A t \in Threads : thread[t].counter = 0 /\ Count(thread[t].text, ".") > 0
    /\ shared.stage.counters[p_dot] < Count(thread[1].text, ".") + Count(thread[2].text, ".")
    /\ LikeNoSequentialOrder

\* The places, in the text a rule returns, of the text its replacer produced:
\* spans are the spans the rule replaced in text, shift is how far the spans
\* before the i-th moved what follows them.
RECURSIVE ProducedFrom(_, _, _, _, _)
ProducedFrom(rule, text, spans, i, shift) ==
    IF i > Len(spans) THEN {}
    ELSE LET start == spans[i][1]
             end == spans[i][2]
             made == Len(Replacer(rule, SubSeq(text, start + 1, end)))
         IN  ((start + shift + 1)..(start + shift + made))
                 \cup ProducedFrom(rule, text, spans, i + 1, shift + made - (end - start))

\* No rule of the list matched text that the rule before it produced.
NoRescan(rules, text) ==
    LET inputs == RuleInputs(rules, text) IN
    \A k \in 2..Len(rules) :
        LET produced == ProducedFrom(rules[k - 1], inputs[k - 1],
                                     SpansFrom(rules[k - 1], inputs[k - 1], 0), 1, 0)
            spans == SpansFrom(rules[k], inputs[k], 0)
        IN  \A i \in DOMAIN spans :
                ((spans[i][1] + 1)..spans[i][2]) \cap produced = {}

\* C18: during one Substitution transform call, text produced by one rule's
\* replacement is never matched and rewritten by a later rule of the stage;
\* for {"going to": "going", "going": "goin"} the input "going to" yields
\* "going", not "goin".
C18_NoRescan ==
    subPc = "returned" =>
        /\ NoRescan(sub.rules, subText)
        /\ (/\ sub.mappings = <<<<s_going_to, s_going>>, <<s_going, s_goin>>>>
            /\ subText = s_going_to) => subResult = s_going

\* the rules of a SuffixReplacer or PrefixReplacer given the add_rule calls
\* in the order of the sequence
RECURSIVE AffixRules(_, _, _)
AffixRules(class, calls, rules) ==
    IF calls = <<>> THEN rules
    ELSE AffixRules(class, Tail(calls),
             IF class = "SuffixReplacer"
                 THEN SuffixReplacer_add_rule(rules, calls[1].affix, calls[1].replacement,
                                              calls[1].min_stem)
                 ELSE PrefixReplacer_add_rule(rules, calls[1].affix, calls[1].replacement))

\* the sequences that hold the elements of seq in another order
Reorderings(seq) ==
    {[i \in DOMAIN seq |-> seq[f[i]]] :
        f \in {g \in [DOMAIN seq -> DOMAIN seq] : \A i, j \in DOMAIN seq : i # j => g[i] # g[j]}}

\* the calls sorted by descending length of the affix
RECURSIVE CallsByLen(_, _)
CallsByLen(calls, sorted) ==
    IF calls = <<>> THEN sorted
    ELSE CallsByLen(Tail(calls),
             LET longer == SelectSeq(sorted, LAMBDA c : Len(c.affix) >= Len(calls[1].affix))
                 shorter == SelectSeq(sorted, LAMBDA c : Len(c.affix) < Len(calls[1].affix))
             IN  longer \o <<calls[1]>> \o shorter)

\* C19: the rules of a suffix or prefix stage are applied in descending
\* order of key length regardless of their insertion order, so two
\* configurations that list the same rules (keys unique) in different orders
\* produce the same output on every input.
C19_AffixOrderIrrelevant ==
    (/\ affixPc = "used"
     /\ \A i, j \in DOMAIN affixer.calls :
            i # j => affixer.calls[i].affix # affixer.calls[j].affix) =>
        /\ affixResult =
               RegexTransformer_transform(
                   AffixRules(affixer.class, CallsByLen(affixer.calls, <<>>), <<>>),
                   affixText)
        /\ \A calls \in Reorderings(affixer.calls) :
               RegexTransformer_transform(AffixRules(affixer.class, calls, <<>>), affixText)
                   = affixResult

\* text ends with tail
EndsWith(text, tail) ==
    Len(text) >= Len(tail) /\ SubSeq(text, Len(text) - Len(tail) + 1, Len(text)) = tail

\* the rules of the last call that received a text whose last character is
\* their punctuation
FinalOccurrenceRules ==
    {k \in 1..(Len(augTrace) - 1) : EndsWith(augTrace[k].text, augmenter.rules[k][1])}

\* C20 as stated: an occurrence of the punctuation that is the last
\* character of the input is re-emitted but is neither augmented nor counted.
C20_FinalOccurrenceSkipped ==
    augCalls > 0 =>
        \A k \in FinalOccurrenceRules :
            LET rule == augmenter.rules[k]
                before == dict_get(augTrace[k].counters, rule[1], 0)
                after == dict_get(augTrace[k + 1].counters, rule[1], 0)
            IN  /\ EndsWith(augTrace[k + 1].text, rule[1])
                /\ rule[3] > 1 => after = before + Count(augTrace[k].text, rule[1][1]) - 1

\* C20: SentenceAugmenter decides on an addition for every occurrence of
\* the punctuation, the one that is the last character of the input
\* included: it is re-emitted, counted, and followed by an addition when it
\* is due (always under frequency 1, when its count is a multiple of the
\* frequency otherwise).
C20_FinalOccurrenceDecided ==
    augCalls > 0 =>
        \A k \in FinalOccurrenceRules :
            LET rule == augmenter.rules[k]
                n == Count(augTrace[k].text, rule[1][1])
                before == dict_get(augTrace[k].counters, rule[1], 0)
                after == dict_get(augTrace[k + 1].counters, rule[1], 0)
                out == augTrace[k + 1].text
            IN  IF rule[3] = 1
                    THEN EndsWith(out, rule[1] \o rule[2][((n - 1) % Len(rule[2])) + 1])
                    ELSE /\ after = before + n
                         /\ IF (after - 1) % rule[3] = 0
                                THEN EndsWith(out,
                                         rule[1] \o rule[2][((after - 1) % Len(rule[2])) + 1])
                                ELSE EndsWith(out, rule[1])

\* a fresh stage with the one rule {".", ["A", "B"], 2} has transformed "x.":
\* the only occurrence, the last character, is counted and augmented
C20_Witness ==
    /\ augCalls = 1
    /\ augmenter.rules = <<<<p_dot, <<<<"A">>, <<"B">>>>, 2>>>>
    /\ augText = <<"x", ".">>
    /\ augResult = <<"x", ".", "A">>
    /\ augmenter.counters[p_dot] = 1

\* out is text with an addition of the rule inserted after every occurrence
\* of the rule's punctuation, occurrence n (from 0) receiving entry n mod len
\* of the rule's list (text read from i, out from j)
RECURSIVE EveryFrom(_, _, _, _, _, _)
EveryFrom(text, i, out, j, rule, n) ==
    IF i > Len(text) THEN j = Len(out) + 1
    ELSE /\ j <= Len(out)
         /\ out[j] = text[i]
         /\ IF text[i] # rule[1][1] THEN EveryFrom(text, i + 1, out, j + 1, rule, n)
            ELSE LET a == rule[2][(n % Len(rule[2])) + 1] IN
                 /\ j + Len(a) <= Len(out)
                 /\ SubSeq(out, j + 1, j + Len(a)) = a
                 /\ EveryFrom(text, i + 1, out, j + 1 + Len(a), rule, n + 1)

\* every rule of the stage has frequency 1
OnlyFrequencyOne == \A k \in DOMAIN augmenter.rules : augmenter.rules[k][3] = 1

\* C21: a rule of frequency 1 appends an addition after every occurrence of
\* its punctuation, occurrence k of the call (from 0) receiving additions[k mod
\* len(additions)]; the rule keeps no counter: a counter exists only for the
\* punctuation of a frequency > 1 rule and the rule's step leaves the counters
\* alone, so a stage of frequency 1 rules returns the same output for the same
\* input on a repeated call.
C21_FrequencyOne ==
    /\ \A p \in DOMAIN augmenter.counters :
           \E k \in DOMAIN augmenter.rules :
               augmenter.rules[k][1] = p /\ augmenter.rules[k][3] > 1
    /\ augCalls > 0 =>
           \A k \in 1..(Len(augTrace) - 1) :
               augmenter.rules[k][3] = 1 =>
                   /\ EveryFrom(augTrace[k].text, 1, augTrace[k + 1].text, 1,
                                augmenter.rules[k], 0)
                   /\ augTrace[k + 1].counters = augTrace[k].counters
    /\ (/\ augCalls = 2
        /\ augPc = "used"
        /\ OnlyFrequencyOne
        /\ augPrev.text = augText) => augResult = augPrev.result

\* a stage with the one rule {".", ["A", "B"], 1} has transformed "One. Two.
\* Three. Four." twice and returned the same augmented text both times
C21_Witness ==
    /\ augCalls = 2
    /\ augPc = "used"
    /\ augmenter.rules = <<<<p_dot, <<<<"A">>, <<"B">>>>, 1>>>>
    /\ augText = t_One_Two
    /\ augPrev.text = t_One_Two
    /\ Len(augResult) = Len(t_One_Two) + Count(t_One_Two, ".")
    /\ augPrev.result = augResult

\* the number of alphanumeric characters of text
Alnums(text) == Cardinality({k \in DOMAIN text : char_isalnum(text[k])})

\* C22: a transform call advances the generator by exactly one draw for each
\* alphanumeric character of its input and by none for the other characters,
\* so that the generator it leaves depends on the number of alphanumeric
\* characters only, not on which of them were corrupted.
C22_OneDrawPerCharacter ==
    \A i \in DOMAIN glitch :
        glitch[i].calls > 0 =>
            glitch[i].random = Random_advance(glitch[i].before, Alnums(glitch[i].lastText))

\* C23: a transform call continues the generator where the call before it
\* left it: the results of the calls made on one object, end to end, are what
\* a fresh object of the same percentage and seed returns for the texts end
\* to end; so for two calls, transform(a) + transform(b) = transform(a + b).
C23_StatefulReuse ==
    \A i \in DOMAIN glitch :
        LET g == glitch[i]
            fresh == GlitchTransformer_init(i, g.percentage, g.seed)
        IN  /\ g.calls > 0 =>
                   g.allResult = GlitchTransformer_transform(fresh.percentage, fresh.random,
                                                             g.allText).text
            /\ g.calls = 2 =>
                   g.result \o g.lastResult =
                       GlitchTransformer_transform(fresh.percentage, fresh.random,
                                                   g.text \o g.lastText).text

\* an object of percentage 50 has transformed "Hi" and then " 42!", and
\* returned for " 42!" a text a fresh object does not return for it
C23_Witness ==
    \E i \in DOMAIN glitch :
        LET g == glitch[i]
            fresh == GlitchTransformer_init(i, g.percentage, g.seed)
        IN  /\ g.calls = 2
            /\ g.percentage = 50
            /\ g.text = t_Hi
            /\ g.lastText = t_42_bang
            /\ g.before # fresh.random
            /\ g.lastResult # GlitchTransformer_transform(fresh.percentage, fresh.random,
                                                          g.lastText).text

\* C24: from_dict and GlitchTransformer keep the percentage they are given,
\* inside [0, 100] or not; under a percentage <= 0 transform returns its input
\* unchanged, under a percentage >= 100 it returns a glyph of GLITCH_CHARS for
\* every alphanumeric character and the other characters unchanged; in both
\* cases the generator is advanced for every alphanumeric character: by the
\* randint draw, and under >= 100 by the choice draw too.
C24_PercentageSaturates ==
    \A i \in DOMAIN glitch :
        LET g == glitch[i] IN
        /\ g.percentage = g.given
        /\ (g.calls > 0 /\ g.percentage <= 0) =>
               /\ g.lastResult = g.lastText
               /\ g.random = Random_advance(g.before, Alnums(g.lastText))
        /\ (g.calls > 0 /\ g.percentage >= 100) =>
               /\ Len(g.lastResult) = Len(g.lastText)
               /\ \A k \in DOMAIN g.lastText :
                      IF char_isalnum(g.lastText[k])
                          THEN g.lastResult[k] \in Range(GLITCH_CHARS)
                          ELSE g.lastResult[k] = g.lastText[k]
               /\ g.random = Random_advance(g.before, 2 * Alnums(g.lastText))

\* a stage built by from_dict with the percentage 150 has replaced both
\* alphanumeric characters of " 42!" and left the space and the "!"
C24_Witness ==
    \E i \in DOMAIN glitch :
        /\ glitch[i].given = 150
        /\ glitch[i].percentage = 150
        /\ glitch[i].calls > 0
        /\ glitch[i].lastText = t_42_bang
        /\ glitch[i].lastResult[1] = " "
        /\ glitch[i].lastResult[2] \in Range(GLITCH_CHARS)
        /\ glitch[i].lastResult[3] \in Range(GLITCH_CHARS)
        /\ glitch[i].lastResult[4] = "!"
        /\ glitch[i].random # glitch[i].before

\* a transform call made of the stage before the stage after: its class, its
\* rules and its percentage kept; its counters changed, if at all, under the
\* punctuation of a frequency > 1 rule; its generator changed, if at all, in a
\* GlitchTransformer
Confined(before, after) ==
    /\ after.kind = before.kind
    /\ after.rules = before.rules
    /\ after.percentage = before.percentage
    /\ DOMAIN after.counters = DOMAIN before.counters
    /\ after.counters # before.counters =>
           /\ before.kind = "SentenceAugmenter"
           /\ \A p \in DOMAIN before.counters :
                  after.counters[p] # before.counters[p] =>
                      \E k \in DOMAIN before.rules :
                          before.rules[k][1] = p /\ before.rules[k][3] > 1
    /\ after.random # before.random => before.kind = "GlitchTransformer"

\* no GlitchTransformer and no rule of frequency > 1 among the stages
Stateless(filter) ==
    \A k \in DOMAIN filter.transformers :
        LET stage == filter.transformers[k] IN
        /\ stage.kind # "GlitchTransformer"
        /\ stage.kind = "SentenceAugmenter" =>
               \A j \in DOMAIN stage.rules : stage.rules[j][3] = 1

\* C25: TextFilter.transform leaves the stage list, the prefix, the suffix
\* and every stage's rules as it found them; it changes nothing but counters
\* of frequency > 1 rules and the generator of a GlitchTransformer.  So a
\* TextFilter without such a rule and without a glitch stage is after a call
\* what it was before it, and the same input gives the same output again.
C25_StateConfinement ==
    tfCalls > 0 =>
        /\ tf.prefix = tfPrev.prefix
        /\ tf.suffix = tfPrev.suffix
        /\ Len(tf.transformers) = Len(tfPrev.transformers)
        /\ \A k \in DOMAIN tfPrev.transformers :
               Confined(tfPrev.transformers[k], tf.transformers[k])
        /\ Stateless(tfPrev) =>
               /\ tf = tfPrev
               /\ TextFilter_transform(tf, tfText).result = tfResult

\* a TextFilter with a prefix, a Substitution and a SentenceAugmenter of
\* frequency 1 has been called twice and is what it was before the call; a
\* call with the same text would return the same augmented text
C25_Witness ==
    /\ tfCalls = 2
    /\ Stateless(tfPrev)
    /\ tf.prefix = s_pre
    /\ \E j, k \in DOMAIN tf.transformers :
           /\ tf.transformers[j].kind = "Substitution"
           /\ tf.transformers[k].kind = "SentenceAugmenter"
    /\ tfText = t_One_Two
    /\ tfResult # s_pre \o t_One_Two
    /\ tf = tfPrev

\* C26: over every sequence of add_rule and transform calls on one
\* SentenceAugmenter the counter stored for a punctuation never decreases:
\* no call, and no add_rule of a second frequency > 1 rule for the
\* punctuation in particular, resets it.
C26_CounterMonotonic ==
    [][\A p \in DOMAIN augmenter.counters :
           /\ p \in DOMAIN augmenter'.counters
           /\ augmenter'.counters[p] >= augmenter.counters[p]]_vars

\* out is text with additions of the rule inserted immediately after
\* occurrences of the rule's punctuation, and nothing else changed (text read
\* from i, out from j)
RECURSIVE InsertedFrom(_, _, _, _, _)
InsertedFrom(text, i, out, j, rule) ==
    IF i > Len(text) THEN j = Len(out) + 1
    ELSE /\ j <= Len(out)
         /\ out[j] = text[i]
         /\ \/ InsertedFrom(text, i + 1, out, j + 1, rule)
            \/ /\ text[i] = rule[1][1]
               /\ \E a \in Range(rule[2]) :
                      /\ j + Len(a) <= Len(out)
                      /\ SubSeq(out, j + 1, j + Len(a)) = a
                      /\ InsertedFrom(text, i + 1, out, j + 1 + Len(a), rule)

\* text is out with some characters left out (text read from i, out from j)
RECURSIVE SubsequenceFrom(_, _, _, _)
SubsequenceFrom(text, i, out, j) ==
    IF i > Len(text) THEN TRUE
    ELSE IF j > Len(out) THEN FALSE
    ELSE IF out[j] = text[i] THEN SubsequenceFrom(text, i + 1, out, j + 1)
    ELSE SubsequenceFrom(text, i, out, j + 1)

\* C27: every rule of a transform call returns the text it received with
\* additions inserted immediately after occurrences of its punctuation, no
\* character removed, changed or moved, so the input of the call is kept in
\* order in its result; a rule receives the text the rule before it returned,
\* and splits and counts the punctuation marks that rule inserted like those
\* of the input: a frequency 1 rule augments every one of them, a frequency
\* > 1 rule advances its counter by every one of them.
C27_InsertOnly ==
    augCalls > 0 =>
        /\ augTrace[1].text = augText
        /\ augTrace[Len(augTrace)].text = augResult
        /\ SubsequenceFrom(augText, 1, augResult, 1)
        /\ \A k \in 1..(Len(augTrace) - 1) :
               LET rule == augmenter.rules[k]
                   seen == Count(augTrace[k].text, rule[1][1])
               IN  /\ InsertedFrom(augTrace[k].text, 1, augTrace[k + 1].text, 1, rule)
                   /\ Len(augTrace[k + 1].text) >= Len(augTrace[k].text)
                   /\ IF rule[3] = 1
                          THEN Count(augTrace[k + 1].text, rule[1][1]) >= seen
                               /\ EveryFrom(augTrace[k].text, 1, augTrace[k + 1].text, 1, rule, 0)
                          ELSE dict_get(augTrace[k + 1].counters, rule[1], 0) =
                                   dict_get(augTrace[k].counters, rule[1], 0) + seen

\* a stage whose first rule appends "." after every "!" and whose second
\* rule counts "." has transformed "Hi! Yo. Go!": the second rule counted the
\* one "." of the input and the two the first rule inserted
C27_Witness ==
    /\ augCalls = 1
    /\ Len(augmenter.rules) = 2
    /\ augmenter.rules[1] = <<p_bang, <<<<".">>>>, 1>>
    /\ augmenter.rules[2][1] = p_dot
    /\ augmenter.rules[2][3] > 1
    /\ augText = t_Hi_Yo_Go
    /\ Count(augText, ".") = 1
    /\ augmenter.counters[p_dot] = 3
    /\ Len(augResult) > Len(augText) + 2

====
